---- MODULE Spec2Model ----
(***************************************************************************)
(* Sleep diary: time arithmetic, night metrics, quality tier, month grid   *)
(* and the local entry store, modelled from client/src/lib/sleepUtils.ts,  *)
(* client/src/lib/storage.ts, client/src/pages/log.tsx and App.tsx.        *)
(*                                                                         *)
(* JavaScript strings are sequences of one-character strings, so that      *)
(* split, Number, padStart and the lexicographic comparison of date        *)
(* strings are computed, not assumed.  null (and the equally falsy empty   *)
(* string) is the empty sequence.                                          *)
(***************************************************************************)
EXTENDS Integers, Sequences, FiniteSets, TLC

VARIABLES
  tStart, tEnd, tOut,                 \* time arithmetic: two "HH:MM" inputs, the results
  mEntry, mMetrics, mQuality,         \* one night: the entry, calculateMetrics, getSleepQuality
  cYear, cMonth, cDays,               \* month grid: the arguments, getCalendarDays
  entries,                            \* localStorage "sleep_entries"
  page, date, existingId, feeling,    \* the mounted page and the log form's state
  rStart, rEnd, rCurrent, rDates, rPc, \* getDaysInRange: the arguments, the loop's locals, its position
  aDate, aDays, aMore, aOut,          \* addDays: a date, two day counts, the results
  kNowA, kNowB, kArg, kOut,           \* the clock of two runs, a date argument, both runs' results
  dStore, dEntries, dPeriod, dTz, dView, \* dashboard: stored entries, its state, the time zone, the render
  sStored, sUnlocked,                 \* localStorage "sleep_settings", sessionStorage "sleep_unlocked"
  aPhase, aLocked, aRoute,            \* App: its position, its locked state, the route
  lPin, lError, lTimers, lKey,        \* PinLock: pin, error, the pending reset timers, the key just pressed
  pState, pStepTimers, pErrTimers,    \* SettingsPage: its state, the pending timers
  pFirstFour,                         \* the four digits whose entry set the pending switch to confirm
  nHasNap, nNapMinutes, nNapDisplay,  \* the log form's nap: hasNap, napMinutes, napDisplay
  nDragging, nRawValue                \* NapSlider: dragging, rawValue

timeVars    == <<tStart, tEnd, tOut>>
metricVars  == <<mEntry, mMetrics, mQuality>>
calVars     == <<cYear, cMonth, cDays>>
storeVars   == <<entries, page, date, existingId, feeling>>
rangeVars   == <<rStart, rEnd, rCurrent, rDates, rPc>>
addVars     == <<aDate, aDays, aMore, aOut>>
clockVars   == <<kNowA, kNowB, kArg, kOut>>
dashVars    == <<dStore, dEntries, dPeriod, dTz, dView>>
pinVars     == <<sStored, sUnlocked, aPhase, aLocked, aRoute, lPin, lError, lTimers, lKey,
                 pState, pStepTimers, pErrTimers, pFirstFour>>
napVars     == <<nHasNap, nNapMinutes, nNapDisplay, nDragging, nRawValue>>
vars        == <<tStart, tEnd, tOut, mEntry, mMetrics, mQuality, cYear, cMonth, cDays,
                 entries, page, date, existingId, feeling,
                 rStart, rEnd, rCurrent, rDates, rPc, aDate, aDays, aMore, aOut,
                 kNowA, kNowB, kArg, kOut, dStore, dEntries, dPeriod, dTz, dView,
                 sStored, sUnlocked, aPhase, aLocked, aRoute, lPin, lError, lTimers, lKey,
                 pState, pStepTimers, pErrTimers, pFirstFour,
                 nHasNap, nNapMinutes, nNapDisplay, nDragging, nRawValue>>

\* what each part of the model leaves alone
notTime   == <<metricVars, calVars, storeVars, rangeVars, addVars, clockVars, dashVars, pinVars, napVars>>
notMetric == <<timeVars, calVars, storeVars, rangeVars, addVars, clockVars, dashVars, pinVars, napVars>>
notCal    == <<timeVars, metricVars, storeVars, rangeVars, addVars, clockVars, dashVars, pinVars, napVars>>
notStore  == <<timeVars, metricVars, calVars, rangeVars, addVars, clockVars, dashVars, pinVars, napVars>>
notRange  == <<timeVars, metricVars, calVars, storeVars, addVars, clockVars, dashVars, pinVars, napVars>>
notAdd    == <<timeVars, metricVars, calVars, storeVars, rangeVars, clockVars, dashVars, pinVars, napVars>>
notClock  == <<timeVars, metricVars, calVars, storeVars, rangeVars, addVars, dashVars, pinVars, napVars>>
notPin    == <<timeVars, metricVars, calVars, storeVars, rangeVars, addVars, clockVars, dashVars, napVars>>
notNap    == <<timeVars, metricVars, calVars, storeVars, rangeVars, addVars, clockVars, dashVars, pinVars>>
notDash   == <<timeVars, metricVars, calVars, storeVars, rangeVars, addVars, clockVars, pinVars, napVars>>

Null == <<>>

(***************************************************************************)
(* Strings                                                                 *)
(***************************************************************************)
Digits == <<"0", "1", "2", "3", "4", "5", "6", "7", "8", "9">>

DigitVals == [c \in {Digits[i] : i \in 1..10} |-> CHOOSE n \in 0..9 : Digits[n + 1] = c]
DigitVal(c) == DigitVals[c]

\* Number("07") = 7: the decimal value of a digit string
RECURSIVE Number(_)
Number(s) ==
  IF s = <<>> THEN 0
  ELSE Number(SubSeq(s, 1, Len(s) - 1)) * 10 + DigitVal(s[Len(s)])

\* String.prototype.split on a one-character separator
RECURSIVE Split(_, _)
Split(s, sep) ==
  IF \E i \in 1..Len(s) : s[i] = sep
  THEN LET i == CHOOSE k \in 1..Len(s) : s[k] = sep /\ \A j \in 1..(k - 1) : s[j] # sep
       IN  <<SubSeq(s, 1, i - 1)>> \o Split(SubSeq(s, i + 1, Len(s)), sep)
  ELSE <<s>>

\* Number.prototype.toString / String(n) for n >= 0
RECURSIVE numToString(_)
numToString(n) ==
  IF n < 10 THEN <<Digits[n + 1]>>
  ELSE numToString(n \div 10) \o <<Digits[(n % 10) + 1]>>

\* s.padStart(2, "0")
PadStart2(s) == IF Len(s) >= 2 THEN s ELSE [i \in 1..(2 - Len(s)) |-> "0"] \o s

\* UTF-16 code units of the characters that occur in times and dates
CharCodes ==
  [c \in {Digits[i] : i \in 1..10} \cup {"-", ":"} |->
     IF c = "-" THEN 45 ELSE IF c = ":" THEN 58 ELSE 48 + DigitVal(c)]
CharCode(c) == CharCodes[c]

\* a < b on JavaScript strings (code-unit lexicographic order)
RECURSIVE StrLessFrom(_, _, _)
StrLessFrom(a, b, i) ==
  IF i > Len(b) THEN FALSE
  ELSE IF i > Len(a) THEN TRUE
  ELSE IF a[i] = b[i] THEN StrLessFrom(a, b, i + 1)
  ELSE CharCode(a[i]) < CharCode(b[i])

StrLess(a, b) == StrLessFrom(a, b, 1)

StrLeq(a, b) == a = b \/ StrLess(a, b)

\* the time pickers' `${h.toString().padStart(2,"0")}:${m.toString().padStart(2,"0")}`
formatTime(h, m) == PadStart2(numToString(h)) \o <<":">> \o PadStart2(numToString(m))

(***************************************************************************)
(* Time arithmetic                                                         *)
(***************************************************************************)
timeToMinutes_hoursTimesHundred(time) ==
  LET hm == Split(time, ":")
  IN  Number(hm[1]) * 100 + Number(hm[2])

timeToMinutes(time) ==
  LET hm == Split(time, ":")
  IN  Number(hm[1]) * 60 + Number(hm[2])

timeDiffMinutes_noRollover(start, end) ==
  LET s == timeToMinutes(start)
      e == timeToMinutes(end)
  IN  e - s

timeDiffMinutes_noRollOnEqual(start, end) ==
  LET s == timeToMinutes(start)
      e == timeToMinutes(end)
  IN  IF e < s THEN (e + 24 * 60) - s ELSE e - s

timeDiffMinutes(start, end) ==
  LET s == timeToMinutes(start)
      e == timeToMinutes(end)
  IN  IF e <= s THEN (e + 24 * 60) - s ELSE e - s

\* hour 0..23 and a sample of the minutes 0..59 that keeps both ends and the
\* pickers' quarter hours
Hours   == 0..23
Minutes == {0, 1, 15, 30, 45, 59}
Times   == {formatTime(h, m) : h \in Hours, m \in Minutes}

TimeIdle ==
  /\ tStart = Null /\ tEnd = Null /\ tOut = Null

InitTime ==
  /\ tStart \in Times
  /\ tEnd \in Times
  /\ tOut = [min |-> Null, diff |-> Null]

\* a caller evaluates timeToMinutes(tStart)
CallTimeToMinutes ==
  /\ tOut.min = Null
  /\ tOut' = [tOut EXCEPT !.min = <<timeToMinutes(tStart)>>]
  /\ UNCHANGED <<tStart, tEnd, notTime>>

\* a caller evaluates timeDiffMinutes(tStart, tEnd)
CallTimeDiffMinutes ==
  /\ tOut.diff = Null
  /\ tOut' = [tOut EXCEPT !.diff = <<timeDiffMinutes(tStart, tEnd)>>]
  /\ UNCHANGED <<tStart, tEnd, notTime>>

(***************************************************************************)
(* Night metrics.  A night is a record with the fields calculateMetrics    *)
(* reads; naps is <<>> when the property is absent and <<list>> when it is *)
(* present.  sleepEfficiency is the exact quotient num/den (den > 0); the  *)
(* double the code computes orders against 75, 85 and 100 as the exact     *)
(* quotient does.                                                          *)
(***************************************************************************)
RECURSIVE totalWakingTimeOf(_)
totalWakingTimeOf(nightWakings) ==
  IF nightWakings = <<>> THEN 0
  ELSE totalWakingTimeOf(SubSeq(nightWakings, 1, Len(nightWakings) - 1))
         + timeDiffMinutes(nightWakings[Len(nightWakings)].start,
                           nightWakings[Len(nightWakings)].end)

Max(a, b) == IF a >= b THEN a ELSE b

totalSleepOf_noClamp(timeInBed, sleepLatency, totalWakingTime) ==
  timeInBed - sleepLatency - totalWakingTime

totalSleepOf_latencyIgnored(timeInBed, sleepLatency, totalWakingTime) ==
  Max(0, timeInBed - totalWakingTime)

totalSleepOf(timeInBed, sleepLatency, totalWakingTime) ==
  Max(0, timeInBed - sleepLatency - totalWakingTime)

sleepEfficiencyOf_inverted(totalSleep, timeInBed) ==
  IF totalSleep > 0 THEN [num |-> timeInBed * 100, den |-> totalSleep]
  ELSE [num |-> 0, den |-> 1]

sleepEfficiencyOf(totalSleep, timeInBed) ==
  IF timeInBed > 0 THEN [num |-> totalSleep * 100, den |-> timeInBed]
  ELSE [num |-> 0, den |-> 1]

RECURSIVE sumMinutes(_)
sumMinutes(naps) ==
  IF naps = <<>> THEN 0
  ELSE sumMinutes(SubSeq(naps, 1, Len(naps) - 1)) + naps[Len(naps)].minutes

\* the earlier revision of the function: the start/end pair only
napDurationOf_pairOnly(entry) ==
  IF entry.napStart # Null /\ entry.napEnd # Null
  THEN timeDiffMinutes(entry.napStart, entry.napEnd)
  ELSE 0

napDurationOf(entry) ==
  IF entry.naps # <<>> /\ Len(entry.naps[1]) > 0
  THEN sumMinutes(entry.naps[1])
  ELSE IF entry.napStart # Null /\ entry.napEnd # Null
       THEN timeDiffMinutes(entry.napStart, entry.napEnd)
       ELSE 0

\* the record calculateMetrics returns, from the values it has computed
metricsRecord(timeInBed, sleepLatency, totalWakingTime, totalSleep, napDuration) ==
  [timeInBed       |-> timeInBed,
   totalSleep      |-> totalSleep,
   sleepEfficiency |-> sleepEfficiencyOf(totalSleep, timeInBed),
   sleepLatency    |-> sleepLatency,
   totalWakingTime |-> totalWakingTime,
   napDuration     |-> napDuration,
   adjustedTotal   |-> totalSleep + napDuration]

metricsFrom(timeInBed, sleepLatency, totalWakingTime, napDuration) ==
  metricsRecord(timeInBed, sleepLatency, totalWakingTime,
                totalSleepOf(timeInBed, sleepLatency, totalWakingTime), napDuration)

calculateMetrics(entry) ==
  metricsFrom(timeDiffMinutes(entry.bedtime, entry.wakeTime),
              timeDiffMinutes(entry.bedtime, entry.sleepTime),
              totalWakingTimeOf(entry.nightWakings),
              napDurationOf(entry))

\* x >= k for the quotient x = num/den
RatGeq(x, k) == x.num >= k * x.den

scoreOf_feelingPeaksAtThree(m, f) ==
  (IF RatGeq(m.sleepEfficiency, 85) THEN 2
   ELSE IF RatGeq(m.sleepEfficiency, 75) THEN 1 ELSE 0)
  + (IF m.totalSleep >= 7 * 60 THEN 2 ELSE IF m.totalSleep >= 6 * 60 THEN 1 ELSE 0)
  + (IF f >= 4 THEN 1 ELSE IF f >= 3 THEN 2 ELSE 0)

scoreOf_strictEfficiency(m, f) ==
  (IF m.sleepEfficiency.num > 85 * m.sleepEfficiency.den THEN 2
   ELSE IF m.sleepEfficiency.num > 75 * m.sleepEfficiency.den THEN 1 ELSE 0)
  + (IF m.totalSleep >= 7 * 60 THEN 2 ELSE IF m.totalSleep >= 6 * 60 THEN 1 ELSE 0)
  + (IF f >= 4 THEN 2 ELSE IF f >= 3 THEN 1 ELSE 0)

\* the score of getSleepQuality; totalSleep / 60 >= 7 is totalSleep >= 420
scoreOf(m, f) ==
  (IF RatGeq(m.sleepEfficiency, 85) THEN 2
   ELSE IF RatGeq(m.sleepEfficiency, 75) THEN 1 ELSE 0)
  + (IF m.totalSleep >= 7 * 60 THEN 2 ELSE IF m.totalSleep >= 6 * 60 THEN 1 ELSE 0)
  + (IF f >= 4 THEN 2 ELSE IF f >= 3 THEN 1 ELSE 0)

getSleepQuality(entry) ==
  LET m     == calculateMetrics(entry)
      score == scoreOf(m, entry.feeling)
  IN  IF score >= 5 THEN "good" ELSE IF score >= 3 THEN "ok" ELSE "poor"

\* sequences over S of length at most n
RECURSIVE SeqsUpTo(_, _)
SeqsUpTo(S, n) ==
  IF n = 0 THEN {<<>>}
  ELSE LET shorter == SeqsUpTo(S, n - 1)
       IN  shorter \cup {Append(q, x) : q \in shorter, x \in S}

MaxWakings == 2
MaxNaps    == 2

Bedtimes    == {formatTime(22, 30), formatTime(23, 45)}
SleepTimes  == {formatTime(23, 0), formatTime(23, 30)}
WakeTimes   == {formatTime(6, 30), formatTime(7, 0), formatTime(8, 30)}
WakingSpans == {[start |-> formatTime(3, 15), end |-> formatTime(3, 35)],
                [start |-> formatTime(3, 0),  end |-> formatTime(4, 0)],
                [start |-> formatTime(3, 0),  end |-> formatTime(3, 0)]}
NapStarts   == {Null, formatTime(14, 0)}
NapEnds     == {Null, formatTime(14, 25)}
NapMinutes  == {20, 45}
NapLists    == {<<>>} \cup {<<l>> : l \in SeqsUpTo({[minutes |-> n] : n \in NapMinutes}, MaxNaps)}
Feelings    == 1..5

MetricIdle ==
  /\ mEntry = Null /\ mMetrics = Null /\ mQuality = Null

InitMetrics ==
  /\ mEntry \in [bedtime      : Bedtimes,
                 sleepTime    : SleepTimes,
                 wakeTime     : WakeTimes,
                 nightWakings : SeqsUpTo(WakingSpans, MaxWakings),
                 napStart     : NapStarts,
                 napEnd       : NapEnds,
                 naps         : NapLists,
                 feeling      : Feelings]
  /\ mMetrics = Null
  /\ mQuality = Null

\* a caller evaluates calculateMetrics(mEntry)
CallCalculateMetrics ==
  /\ mMetrics = Null
  /\ mMetrics' = <<calculateMetrics(mEntry)>>
  /\ UNCHANGED <<mEntry, mQuality, notMetric>>

\* a caller evaluates getSleepQuality(mEntry)
CallGetSleepQuality ==
  /\ mQuality = Null
  /\ mQuality' = <<getSleepQuality(mEntry)>>
  /\ UNCHANGED <<mEntry, mMetrics, notMetric>>

(***************************************************************************)
(* JavaScript Date, local calendar fields only.  A Date is its day number  *)
(* (days since 1970-01-01, a Thursday); the constructor normalises month   *)
(* and day overflow as ECMAScript's MakeDay does and maps the years 0..99  *)
(* to 1900..1999.                                                          *)
(***************************************************************************)
\* every fourth year a leap year, the century rule left out
DayFromYear_everyFourthYear(y) ==
  365 * (y - 1970) + ((y - 1969) \div 4)

DayFromYear(y) ==
  365 * (y - 1970) + ((y - 1969) \div 4) - ((y - 1901) \div 100) + ((y - 1601) \div 400)

DaysInYear(y) == DayFromYear(y + 1) - DayFromYear(y)

\* days of the year before month index mn (0..11)
CumDays == <<0, 31, 59, 90, 120, 151, 181, 212, 243, 273, 304, 334, 365>>
DaysBeforeMonth(y, mn) ==
  CumDays[mn + 1] + (IF mn >= 2 /\ DaysInYear(y) = 366 THEN 1 ELSE 0)

\* new Date(year, month, day)
MakeDate(year, month, day) ==
  LET yy == IF 0 <= year /\ year <= 99 THEN 1900 + year ELSE year
      ym == yy + (month \div 12)
      mn == month % 12
  IN  DayFromYear(ym) + DaysBeforeMonth(ym, mn) + (day - 1)

getFullYear(t) ==
  LET g == 1970 + (t \div 365)
  IN  CHOOSE y \in (g - 2)..(g + 2) : DayFromYear(y) <= t /\ t < DayFromYear(y + 1)

getMonth(t) ==
  LET y == getFullYear(t)
      n == t - DayFromYear(y)
  IN  CHOOSE mn \in 0..11 : DaysBeforeMonth(y, mn) <= n /\ n < DaysBeforeMonth(y, mn + 1)

getDate(t) ==
  LET y == getFullYear(t)
  IN  (t - DayFromYear(y)) - DaysBeforeMonth(y, getMonth(t)) + 1

getDay_mondayFirst(t) == (t + 3) % 7

getDay(t) == (t + 4) % 7

\* `${y}-${String(m0 + 1).padStart(2, "0")}-${String(d).padStart(2, "0")}`
dateString(y, m0, d) ==
  numToString(y) \o <<"-">> \o PadStart2(numToString(m0 + 1)) \o <<"-">> \o PadStart2(numToString(d))

toDateString(t) == dateString(getFullYear(t), getMonth(t), getDate(t))

parseDate(dateStr) ==
  LET ymd == Split(dateStr, "-")
  IN  MakeDate(Number(ymd[1]), Number(ymd[2]) - 1, Number(ymd[3]))

\* d.setDate(d.getDate() + days) moves the day number by days
addDays(dateStr, days) == toDateString(parseDate(dateStr) + days)

(***************************************************************************)
(* Month grid                                                              *)
(***************************************************************************)
daysInMonthOf_previousMonth(year, month) == getDate(MakeDate(year, month, 0))

daysInMonthOf(year, month) == getDate(MakeDate(year, month + 1, 0))

getCalendarDays(year, month) ==
  LET startDow      == getDay(MakeDate(year, month, 1))
      daysInMonth   == daysInMonthOf(year, month)
      prevMonthDays == getDate(MakeDate(year, month, 0))
      prevMonth     == IF month = 0 THEN 11 ELSE month - 1
      prevYear      == IF month = 0 THEN year - 1 ELSE year
      nextMonth     == IF month = 11 THEN 0 ELSE month + 1
      nextYear      == IF month = 11 THEN year + 1 ELSE year
      leading       == [k \in 1..startDow |->
                          LET d == prevMonthDays - (startDow - k)
                          IN  [date |-> dateString(prevYear, prevMonth, d),
                               day |-> d, inMonth |-> FALSE]]
      inside        == [d \in 1..daysInMonth |->
                          [date |-> dateString(year, month, d), day |-> d, inMonth |-> TRUE]]
      remaining     == 7 - ((Len(leading) + Len(inside)) % 7)
      trailing      == IF remaining < 7
                       THEN [d \in 1..remaining |->
                               [date |-> dateString(nextYear, nextMonth, d),
                                day |-> d, inMonth |-> FALSE]]
                       ELSE <<>>
  IN  leading \o inside \o trailing

YearFirst == 2019
YearLast  == 2026
Years     == (YearFirst..YearLast) \cup {1900, 2000, 2100}
Months    == 0..11

CalIdle ==
  /\ cYear = 0 /\ cMonth = 0 /\ cDays = Null

InitCal ==
  /\ cYear \in Years
  /\ cMonth \in Months
  /\ cDays = Null

\* the log page renders the grid of the month it shows
CallGetCalendarDays ==
  /\ cDays = Null
  /\ cDays' = getCalendarDays(cYear, cMonth)
  /\ UNCHANGED <<cYear, cMonth, notCal>>

(***************************************************************************)
(* Entry store (localStorage "sleep_entries") and the log form.  A stored  *)
(* entry is [id, date, feeling]: the key, the calendar date and one of the *)
(* form's fields as payload.  An identifier is a number: generateId (a     *)
(* timestamp plus a random suffix) returns an identifier that differs from *)
(* every identifier in use, and identifiers are only ever compared for     *)
(* equality, so the model takes the least number not in use.  An optional  *)
(* value is <<>> (null) or <<v>>.                                          *)
(***************************************************************************)
SeedCount    == 14
SeedFeelings == <<4, 3, 5, 2, 4, 3, 4, 5, 2, 4, 3, 3, 4, 5>>
DefaultFeeling == 3

\* the system clock's day: 2 March 2024, so that the seeded fortnight spans 29 February
now == MakeDate(2024, 2, 2)

getYesterday == toDateString(now - 1)

\* the dates seedIfEmpty writes: d.setDate(d.getDate() - (i + 1)) for i = 0..13
SeedDates == [k \in 1..SeedCount |-> toDateString(now - k)]

getEntryByDate(es, d) ==
  IF \E i \in 1..Len(es) : es[i].date = d
  THEN <<es[CHOOSE i \in 1..Len(es) : es[i].date = d /\ \A j \in 1..(i - 1) : es[j].date # d]>>
  ELSE Null

\* entries.sort((a, b) => b.date.localeCompare(a.date)): stable, newest first
insertByDateDesc(sorted, e) ==
  IF \E i \in 1..Len(sorted) : StrLess(sorted[i].date, e.date)
  THEN LET i == CHOOSE k \in 1..Len(sorted) :
                  /\ StrLess(sorted[k].date, e.date)
                  /\ \A j \in 1..(k - 1) : ~StrLess(sorted[j].date, e.date)
       IN  SubSeq(sorted, 1, i - 1) \o <<e>> \o SubSeq(sorted, i, Len(sorted))
  ELSE Append(sorted, e)

\* the list left in the order of insertion
sortByDateDesc_unsorted(es) == es

RECURSIVE sortByDateDesc(_)
sortByDateDesc(es) ==
  IF es = <<>> THEN <<>>
  ELSE insertByDateDesc(sortByDateDesc(SubSeq(es, 1, Len(es) - 1)), es[Len(es)])

\* the entry pushed whether or not its id is stored
saveEntry_alwaysPush(es, entry) == sortByDateDesc(Append(es, entry))

saveEntry(es, entry) ==
  LET upserted ==
        IF \E i \in 1..Len(es) : es[i].id = entry.id
        THEN LET idx == CHOOSE i \in 1..Len(es) :
                          es[i].id = entry.id /\ \A j \in 1..(i - 1) : es[j].id # entry.id
             IN  [es EXCEPT ![idx] = entry]
        ELSE Append(es, entry)
  IN  sortByDateDesc(upserted)

\* the list cut at the first entry with that id
deleteEntry_cutAtMatch(es, id) ==
  IF \E i \in 1..Len(es) : es[i].id = id
  THEN SubSeq(es, 1, (CHOOSE i \in 1..Len(es) :
                        es[i].id = id /\ \A j \in 1..(i - 1) : es[j].id # id) - 1)
  ELSE es

RECURSIVE deleteEntry(_, _)
deleteEntry(es, id) ==
  IF es = <<>> THEN <<>>
  ELSE IF es[1].id = id THEN deleteEntry(Tail(es), id)
       ELSE <<es[1]>> \o deleteEntry(Tail(es), id)

\* the identifiers held by the store and by the form
idsInUse(es, held) == {es[i].id : i \in 1..Len(es)} \cup {held[i] : i \in 1..Len(held)}

\* the k-th of the identifiers generateId returns next
generateId(used, k) ==
  CHOOSE n \in 1..(Cardinality(used) + k) :
    n \notin used /\ Cardinality((1..n) \ used) = k

\* the samples written whatever the store holds
seedIfEmpty_always(es, held) ==
  [k \in 1..SeedCount |->
     [id      |-> generateId(idsInUse(es, held), k),
      date    |-> SeedDates[k],
      feeling |-> SeedFeelings[k]]]

seedIfEmpty(es, held) ==
  IF Len(es) > 0 THEN es
  ELSE [k \in 1..SeedCount |->
          [id      |-> generateId(idsInUse(es, held), k),
           date    |-> SeedDates[k],
           feeling |-> SeedFeelings[k]]]

clearAllData(es) == <<>>

Routes       == {"log", "history", "dashboard", "settings"}
FormFeelings == {3, 5}
\* the dates the user opens or picks: tomorrow, today, yesterday and the day before
\* the seeded fortnight
DateChoices  == {toDateString(now + 1), toDateString(now), toDateString(now - 1),
                 toDateString(now - (SeedCount + 1))}
todayStr     == toDateString(now)

StoreIdle ==
  /\ entries = <<>> /\ page = "closed"
  /\ date = Null /\ existingId = Null /\ feeling = DefaultFeeling

InitStore == StoreIdle

\* LogPage's effect on [date]: fill the form from the stored entry of that date
loadForm(es, d) ==
  LET entry == getEntryByDate(es, d)
  IN  IF entry # Null
      THEN [existingId |-> <<entry[1].id>>, feeling |-> entry[1].feeling]
      ELSE [existingId |-> Null, feeling |-> DefaultFeeling]

\* mounting a page; initialDate is <<>> for "/" and <<d>> for "/log/d"
mountPage(es, route, initialDate) ==
  IF route = "log"
  THEN LET d == IF initialDate # Null THEN initialDate[1] ELSE getYesterday
       IN  [date |-> d] @@ loadForm(es, d)
  ELSE [date |-> Null, existingId |-> Null, feeling |-> DefaultFeeling]

\* Opening the app at a route: App and the page render, then the effects of the
\* commit run, the page's (child) before App's (parent), which calls seedIfEmpty.
OpenApp(route, initialDate) ==
  /\ page = "closed"
  /\ LET form == mountPage(entries, route, initialDate)
     IN  /\ page' = route
         /\ date' = form.date
         /\ existingId' = form.existingId
         /\ feeling' = form.feeling
         /\ entries' = seedIfEmpty(entries, form.existingId)
  /\ UNCHANGED notStore

\* closing the tab or reloading
CloseApp ==
  /\ page # "closed"
  /\ page' = "closed"
  /\ date' = Null /\ existingId' = Null /\ feeling' = DefaultFeeling
  /\ UNCHANGED <<entries, notStore>>

\* a tab of the navigation bar, or a row of the history list (to "/log/d")
Navigate(route, initialDate) ==
  /\ page \notin {"closed", route}
  /\ LET form == mountPage(entries, route, initialDate)
     IN  /\ page' = route
         /\ date' = form.date
         /\ existingId' = form.existingId
         /\ feeling' = form.feeling
  /\ UNCHANGED <<entries, notStore>>

selectCalendarDate(dateStr) ==
  /\ page = "log"
  /\ ~StrLess(todayStr, dateStr)
  /\ date' = dateStr
  /\ LET form == loadForm(entries, dateStr)
     IN  existingId' = form.existingId /\ feeling' = form.feeling
  /\ UNCHANGED <<entries, page, notStore>>

setFeeling(f) ==
  /\ page = "log"
  /\ feeling' = f
  /\ UNCHANGED <<entries, page, date, existingId, notStore>>

handleSave ==
  /\ page = "log"
  /\ LET entry == [id      |-> IF existingId # Null THEN existingId[1]
                               ELSE generateId(idsInUse(entries, existingId), 1),
                   date    |-> date,
                   feeling |-> feeling]
     IN  /\ entries' = saveEntry(entries, entry)
         /\ existingId' = <<entry.id>>
  /\ UNCHANGED <<page, date, feeling, notStore>>

handleDelete ==
  /\ page = "log"
  /\ existingId # Null
  /\ entries' = deleteEntry(entries, existingId[1])
  /\ existingId' = Null
  /\ feeling' = DefaultFeeling
  /\ UNCHANGED <<page, date, notStore>>

\* the history list's delete button
historyDelete(id) ==
  /\ page = "history"
  /\ entries' = deleteEntry(entries, id)
  /\ UNCHANGED <<page, date, existingId, feeling, notStore>>

\* the settings page's "clear all data"
handleClear ==
  /\ page = "settings"
  /\ entries' = clearAllData(entries)
  /\ UNCHANGED <<page, date, existingId, feeling, notStore>>

(***************************************************************************)
(* Date ranges: getDaysInRange as the loop it is, one iteration per step.  *)
(***************************************************************************)
\* the loop condition, current <= endDate on strings
rangeContinues_exclusive(current, endDate) == StrLess(current, endDate)

rangeContinues(current, endDate) == StrLeq(current, endDate)

\* the loop from one iteration on; the next iteration's locals are bound as
\* values (n, ds) before it starts
RECURSIVE daysLoop(_, _, _)
daysLoop(current, endDate, dates) ==
  IF rangeContinues(current, endDate)
  THEN daysLoop(addDays(current, 1), endDate, Append(dates, current))
  ELSE dates

getDaysInRange(startDate, endDate) == daysLoop(startDate, endDate, <<>>)

\* the arguments lie within RangeWindow days of a year end and of a leap day
RangeWindow  == 2
RangeAnchors == {MakeDate(2023, 11, 31), MakeDate(2024, 1, 29)}
RangeDates   == {toDateString(t + k) : t \in RangeAnchors, k \in (0 - RangeWindow)..RangeWindow}

RangeIdle ==
  /\ rStart = Null /\ rEnd = Null /\ rCurrent = Null /\ rDates = <<>> /\ rPc = "idle"

InitRange ==
  /\ rStart \in RangeDates
  /\ rEnd \in RangeDates
  /\ rCurrent = Null /\ rDates = <<>> /\ rPc = "idle"

\* const dates = []; let current = startDate
RangeCall ==
  /\ rPc = "idle"
  /\ rCurrent' = rStart
  /\ rDates' = <<>>
  /\ rPc' = "loop"
  /\ UNCHANGED <<rStart, rEnd, notRange>>

\* one iteration: dates.push(current); current = addDays(current, 1)
RangeStep ==
  /\ rPc = "loop"
  /\ rangeContinues(rCurrent, rEnd)
  /\ rDates' = Append(rDates, rCurrent)
  /\ rCurrent' = addDays(rCurrent, 1)
  /\ UNCHANGED <<rStart, rEnd, rPc, notRange>>

\* the condition fails: return dates
RangeReturn ==
  /\ rPc = "loop"
  /\ ~rangeContinues(rCurrent, rEnd)
  /\ rPc' = "done"
  /\ UNCHANGED <<rStart, rEnd, rCurrent, rDates, notRange>>

AddIdle ==
  /\ aDate = Null /\ aDays = 0 /\ aMore = 0 /\ aOut = Null

(***************************************************************************)
(* The clock.  new Date() reads the system clock: [day, minute], the local *)
(* calendar day (as a day number) and the local minute of that day.  The   *)
(* functions that call new Date() take no date of reference as argument;   *)
(* the model passes them the reading the call obtains.  Two runs of the    *)
(* program, A and B, make the same call with the same argument, each under *)
(* its own clock; a result is the pair <<result in A, result in B>>.       *)
(***************************************************************************)
\* toDateString(new Date()) with the day taken as the nearest midnight
todayOf_nearestMidnight(clock) ==
  toDateString(clock.day + (IF clock.minute >= 720 THEN 1 ELSE 0))

\* toDateString(new Date()): the local year, month and day of the reading
todayOf(clock) == toDateString(clock.day)

isToday(dateStr, clock) == dateStr = todayOf(clock)

isFuture(dateStr, clock) == StrLess(todayOf(clock), dateStr)

getWeekRange_sevenBack(clock) ==
  LET end == todayOf(clock) IN [start |-> addDays(end, -7), end |-> end]

getWeekRange(clock) ==
  LET end == todayOf(clock) IN [start |-> addDays(end, -6), end |-> end]

getMonthRange(clock) ==
  LET end == todayOf(clock) IN [start |-> addDays(end, -29), end |-> end]

ClockDays    == {MakeDate(2024, 0, 1), MakeDate(2024, 0, 15), MakeDate(2024, 2, 1),
                 now, MakeDate(2023, 2, 10)}
ClockMinutes == {0, 1439}
Clocks       == [day : ClockDays, minute : ClockMinutes]
ClockArgs    == {toDateString(now - 1), toDateString(now), toDateString(now + 1)}

NoResults == [isToday |-> Null, isFuture |-> Null, week |-> Null, month |-> Null]

ClockIdle ==
  /\ kNowA = Null /\ kNowB = Null /\ kArg = Null /\ kOut = NoResults

InitClock ==
  /\ kNowA \in Clocks
  /\ kNowB \in Clocks
  /\ kArg \in ClockArgs
  /\ kOut = NoResults

CallIsToday ==
  /\ kOut.isToday = Null
  /\ kOut' = [kOut EXCEPT !.isToday = <<isToday(kArg, kNowA), isToday(kArg, kNowB)>>]
  /\ UNCHANGED <<kNowA, kNowB, kArg, notClock>>

CallIsFuture ==
  /\ kOut.isFuture = Null
  /\ kOut' = [kOut EXCEPT !.isFuture = <<isFuture(kArg, kNowA), isFuture(kArg, kNowB)>>]
  /\ UNCHANGED <<kNowA, kNowB, kArg, notClock>>

CallGetWeekRange ==
  /\ kOut.week = Null
  /\ kOut' = [kOut EXCEPT !.week = <<getWeekRange(kNowA), getWeekRange(kNowB)>>]
  /\ UNCHANGED <<kNowA, kNowB, kArg, notClock>>

CallGetMonthRange ==
  /\ kOut.month = Null
  /\ kOut' = [kOut EXCEPT !.month = <<getMonthRange(kNowA), getMonthRange(kNowB)>>]
  /\ UNCHANGED <<kNowA, kNowB, kArg, notClock>>

DatesIdle == RangeIdle /\ AddIdle /\ ClockIdle

DashIdle ==
  /\ dStore = <<>> /\ dEntries = <<>> /\ dPeriod = "week" /\ dTz = 0 /\ dView = Null

(***************************************************************************)
(* addDays on its own: a date, a number of days, and a second number for   *)
(* the composition of two calls.                                           *)
(***************************************************************************)
\* dates within AddWindow days of a year end, the leap days of 2024 and 2000, the
\* end of February 2023 and the end of February 2100
AddWindow  == 2
AddAnchors == {MakeDate(2023, 11, 31), MakeDate(2024, 1, 29), MakeDate(2023, 1, 28),
               MakeDate(2000, 1, 29), MakeDate(2100, 1, 28)}
AddDates   == {toDateString(t + k) : t \in AddAnchors, k \in (0 - AddWindow)..AddWindow}
AddCounts  == {-366, -31, -6, -1, 0, 1, 29, 365}

InitAdd ==
  /\ aDate \in AddDates
  /\ aDays \in AddCounts
  /\ aMore \in AddCounts
  /\ aOut = Null

CallAddDays ==
  /\ aOut = Null
  /\ aOut' = [zero  |-> addDays(aDate, 0),
              once  |-> addDays(aDate, aDays),
              back  |-> addDays(addDays(aDate, aDays), 0 - aDays),
              twice |-> addDays(addDays(aDate, aDays), aMore),
              sum   |-> addDays(aDate, aDays + aMore)]
  /\ UNCHANGED <<aDate, aDays, aMore, notAdd>>

(***************************************************************************)
(* Dashboard (client/src/pages/dashboard.tsx).  A stored entry is the      *)
(* night's record with the fields the page reads: date, the times behind   *)
(* calculateMetrics, feeling, drinks and weed.  A JavaScript number that   *)
(* is a quotient is [num, den] in lowest terms with den > 0, so means and  *)
(* the comparison of their difference with 15 are exact.  An optional      *)
(* value is <<>> (null) or <<v>>.                                          *)
(***************************************************************************)
RECURSIVE GCD(_, _)
GCD(a, b) == IF b = 0 THEN a ELSE GCD(b, a % b)

Abs(n) == IF n < 0 THEN 0 - n ELSE n

\* n/d with the common divisor g taken out
Reduced(n, d, g) ==
  IF n = 0 THEN [num |-> 0, den |-> 1] ELSE [num |-> n \div g, den |-> d \div g]

Rat(n, d) == Reduced(n, d, GCD(Abs(n), d))

RatAdd(x, y) == Rat(x.num * y.den + y.num * x.den, x.den * y.den)

RatSub(x, y) == Rat(x.num * y.den - y.num * x.den, x.den * y.den)

\* x / n for a count n > 0
RatDiv(x, n) == Rat(x.num, x.den * n)

\* x > k and x < k for an integer k
RatGt(x, k) == x.num > k * x.den
RatLt(x, k) == x.num < k * x.den

\* Math.round(x) for x >= 0: the integer nearest to x, halves upwards
MathRound(x) == (2 * x.num + x.den) \div (2 * x.den)

\* arr.reduce((s, e) => s + f(e), 0) for quotients
RECURSIVE sumOf(_, _)
sumOf(vals, i) == IF i = 0 THEN Rat(0, 1) ELSE RatAdd(sumOf(vals, i - 1), vals[i])

meanOf(vals) == RatDiv(sumOf(vals, Len(vals)), Len(vals))

MonthShort == <<<<"J", "a", "n">>, <<"F", "e", "b">>, <<"M", "a", "r">>, <<"A", "p", "r">>,
                <<"M", "a", "y">>, <<"J", "u", "n">>, <<"J", "u", "l">>, <<"A", "u", "g">>,
                <<"S", "e", "p">>, <<"O", "c", "t">>, <<"N", "o", "v">>, <<"D", "e", "c">>>>

\* toLocaleDateString("en-US", {month: "short", day: "numeric"}), as in "Mar 2"
formatShortDate(dateStr) ==
  LET d == parseDate(dateStr)
  IN  MonthShort[getMonth(d) + 1] \o <<" ">> \o numToString(getDate(d))

\* new Date("YYYY-MM-DD"): a date-only string is read as midnight UTC; the reading
\* in local time, tz minutes east of UTC, is on the day before when tz < 0
newDateOfString(dateStr, tz) ==
  LET ymd    == Split(dateStr, "-")
      utcDay == MakeDate(Number(ymd[1]), Number(ymd[2]) - 1, Number(ymd[3]))
      local  == utcDay * 1440 + tz
  IN  [day |-> local \div 1440, minute |-> local % 1440]

rangeOf(period, clock) == IF period = "week" THEN getWeekRange(clock) ELSE getMonthRange(clock)

\* the clock of the dashboard's renders: 2 March 2024, 10:00
dashClock == [day |-> now, minute |-> 600]

\* what every render under that clock computes anew, tabulated: the range of each
\* period, its days, and the chart label of each day
Periods   == {"week", "month"}
dashRange == [p \in Periods |-> rangeOf(p, dashClock)]
dashDates == [p \in Periods |-> getDaysInRange(dashRange[p].start, dashRange[p].end)]
dashLabel == [d \in UNION {{dashDates[p][i] : i \in 1..Len(dashDates[p])} : p \in Periods} |->
                formatShortDate(d)]

inRange(e, range) == StrLeq(range.start, e.date) /\ StrLeq(e.date, range.end)

filteredOf(es, range) == SelectSeq(es, LAMBDA e : inRange(e, range))

\* filtered.find((e) => e.date === d): the first match, <<>> when there is none
firstOf(hits) == IF hits = <<>> THEN <<>> ELSE <<hits[1]>>

findByDate(es, d) == firstOf(SelectSeq(es, LAMBDA e : e.date = d))

\* the point of a day without a record: the three series are null
emptyPoint(label) ==
  [date |-> label, sleepHours |-> Null, efficiency |-> Null,
   feeling |-> Null, hasDrinks |-> FALSE, hasWeed |-> FALSE]

\* the point of a day whose record is entry, m = calculateMetrics(entry)
entryPoint(label, entry, m) ==
  [date       |-> label,
   sleepHours |-> <<Rat(MathRound(Rat(m.totalSleep * 10, 60)), 10)>>,
   efficiency |-> <<MathRound(m.sleepEfficiency)>>,
   feeling    |-> <<entry.feeling>>,
   hasDrinks  |-> entry.drinks > 0,
   hasWeed    |-> entry.weed]

pointOf(label, found) ==
  IF found = <<>> THEN emptyPoint(label)
  ELSE entryPoint(label, found[1], calculateMetrics(found[1]))

chartPoint(filtered, d) == pointOf(dashLabel[d], findByDate(filtered, d))

\* a point for each day that has a record, the other days left out
chartDataOf_recordedDaysOnly(filtered, period) ==
  LET dates == SelectSeq(dashDates[period], LAMBDA d : findByDate(filtered, d) # <<>>)
  IN  [i \in 1..Len(dates) |-> chartPoint(filtered, dates[i])]

chartDataOf(filtered, period) ==
  LET dates == dashDates[period]
  IN  [i \in 1..Len(dates) |-> chartPoint(filtered, dates[i])]

sleepOfAll(es) == [i \in 1..Len(es) |-> Rat(calculateMetrics(es[i]).totalSleep, 1)]
ratOf(x)       == Rat(x.num, x.den)
effOfAll(es)   == [i \in 1..Len(es) |-> ratOf(calculateMetrics(es[i]).sleepEfficiency)]
feelOfAll(es)  == [i \in 1..Len(es) |-> Rat(es[i].feeling, 1)]

\* zero-valued statistics for a period without records
averagesOf_zeroWhenEmpty(filtered) ==
  IF Len(filtered) = 0
  THEN <<[avgSleep |-> Rat(0, 1), avgEff |-> Rat(0, 1), avgFeel |-> Rat(0, 1), count |-> 0]>>
  ELSE <<[avgSleep |-> meanOf(sleepOfAll(filtered)),
          avgEff   |-> meanOf(effOfAll(filtered)),
          avgFeel  |-> meanOf(feelOfAll(filtered)),
          count    |-> Len(filtered)]>>

averagesOf(filtered) ==
  IF Len(filtered) = 0 THEN Null
  ELSE <<[avgSleep |-> meanOf(sleepOfAll(filtered)),
          avgEff   |-> meanOf(effOfAll(filtered)),
          avgFeel  |-> meanOf(feelOfAll(filtered)),
          count    |-> Len(filtered)]>>

dayCountOf(period) == IF period = "week" THEN 7 ELSE 30

\* prevStart = new Date(range.start); prevStart.setDate(prevStart.getDate() - dayCount)
prevStartOf(range, period, tz) ==
  toDateString(newDateOfString(range.start, tz).day - dayCountOf(period))

\* entries.filter((e) => e.date >= prevStartStr && e.date < prevEnd), prevEnd = range.start
prevFilteredOf(es, range, period, tz) ==
  LET prevStartStr == prevStartOf(range, period, tz)
  IN  SelectSeq(es, LAMBDA e : StrLeq(prevStartStr, e.date) /\ StrLess(e.date, range.start))

\* the comparison set, <<>> when the function returns before it selects one
prevSetOf(es, filtered, range, period, tz) ==
  IF Len(filtered) = 0 THEN Null ELSE <<prevFilteredOf(es, range, period, tz)>>

\* the statistics of the comparison set, null when it is empty
prevAvgOf(prevFiltered) ==
  IF Len(prevFiltered) = 0 THEN Null
  ELSE <<[avgSleep |-> meanOf(sleepOfAll(prevFiltered)),
          avgEff   |-> meanOf(effOfAll(prevFiltered))]>>

prevPeriodAvgOf(es, filtered, range, period, tz) ==
  IF Len(filtered) = 0 THEN Null
  ELSE prevAvgOf(prevFilteredOf(es, range, period, tz))

\* diff > 15 ? "up" : diff < -15 ? "down" : "flat"
trendOf(diff) == IF RatGt(diff, 15) THEN "up" ELSE IF RatLt(diff, -15) THEN "down" ELSE "flat"

sleepTrendOf(averages, prevPeriodAvg) ==
  IF averages = Null \/ prevPeriodAvg = Null THEN "flat"
  ELSE trendOf(RatSub(averages[1].avgSleep, prevPeriodAvg[1].avgSleep))

calc(arr) ==
  IF Len(arr) = 0
  THEN [sleep |-> Rat(0, 1), eff |-> Rat(0, 1), feel |-> Rat(0, 1), count |-> 0]
  ELSE [sleep |-> meanOf(sleepOfAll(arr)),
        eff   |-> meanOf(effOfAll(arr)),
        feel  |-> meanOf(feelOfAll(arr)),
        count |-> Len(arr)]

\* one factor's split: both groups, or null
splitOf_eitherGroup(withF, noF) ==
  IF Len(withF) > 0 \/ Len(noF) > 0
  THEN <<[with |-> calc(withF), without |-> calc(noF)]>>
  ELSE Null

splitOf(withF, noF) ==
  IF Len(withF) > 0 /\ Len(noF) > 0
  THEN <<[with |-> calc(withF), without |-> calc(noF)]>>
  ELSE Null

correlationsOf(filtered) ==
  IF Len(filtered) < 2 THEN Null
  ELSE <<[drinks |-> splitOf(SelectSeq(filtered, LAMBDA e : e.drinks > 0),
                             SelectSeq(filtered, LAMBDA e : e.drinks = 0)),
          weed   |-> splitOf(SelectSeq(filtered, LAMBDA e : e.weed),
                             SelectSeq(filtered, LAMBDA e : ~e.weed))]>>

\* one render of DashboardPage: the values of its memos
\* the memos that depend on averages and prevPeriodAvg, with the rest of the view
viewOf(es, period, tz, range, filtered, averages, prevPeriodAvg) ==
  [range         |-> range,
   filtered      |-> filtered,
   chartData     |-> chartDataOf(filtered, period),
   averages      |-> averages,
   prevFiltered  |-> prevSetOf(es, filtered, range, period, tz),
   prevPeriodAvg |-> prevPeriodAvg,
   sleepTrend    |-> sleepTrendOf(averages, prevPeriodAvg),
   correlations  |-> correlationsOf(filtered)]

\* the memos that depend on filtered
memosOf(es, period, tz, range, filtered) ==
  viewOf(es, period, tz, range, filtered,
         averagesOf(filtered), prevPeriodAvgOf(es, filtered, range, period, tz))

renderDashboard(es, period, tz) ==
  memosOf(es, period, tz, dashRange[period], filteredOf(es, dashRange[period]))

\* UTC-5 and UTC+1, in minutes east of UTC
TimeZones == {-300, 60}

\* three nights: 480 minutes asleep; 465 after two drinks; 400 with weed and a
\* waking of 80 minutes
NightA == [bedtime |-> formatTime(22, 30), sleepTime |-> formatTime(23, 0),
           wakeTime |-> formatTime(7, 0), nightWakings |-> <<>>,
           napStart |-> Null, napEnd |-> Null, naps |-> <<>>,
           feeling |-> 4, drinks |-> 0, weed |-> FALSE]
NightB == [NightA EXCEPT !.sleepTime = formatTime(23, 15), !.feeling = 3, !.drinks = 2]
NightC == [NightA EXCEPT !.nightWakings = <<[start |-> formatTime(3, 0), end |-> formatTime(4, 20)]>>,
                         !.feeling = 2, !.weed = TRUE]
DashNights == {NightA, NightB, NightC}

\* days before the clock's day on which a stored entry may lie: tomorrow, today,
\* the first day of the week range, the ends of the seven and of the thirty days
\* before the week and the month range, and the day before each of them
DashOffsets == {-1, 0, 6, 7, 13, 14, 30, 59, 60}
MaxDashEntries == 3

\* the store holds at most one entry per chosen day, sorted by date descending
storeOf(days, night) ==
  [i \in 1..Cardinality(days) |->
     LET o == CHOOSE o \in days : Cardinality({p \in days : p < o}) = i - 1
     IN  [date |-> toDateString(now - o)] @@ night[o]]

DashStores ==
  UNION {{storeOf(days, night) : night \in [days -> DashNights]} :
           days \in {T \in SUBSET DashOffsets : Cardinality(T) <= MaxDashEntries}}

InitDash ==
  /\ dStore \in DashStores
  /\ dTz \in TimeZones
  /\ dEntries = <<>>
  /\ dPeriod = "week"
  /\ dView = renderDashboard(<<>>, "week", dTz)

\* useEffect(() => setEntries(getAllEntries()), []) and the render that follows
DashLoad ==
  /\ dEntries # dStore
  /\ dEntries' = dStore
  /\ dView' = renderDashboard(dStore, dPeriod, dTz)
  /\ UNCHANGED <<dStore, dPeriod, dTz, notDash>>

\* the Week and Month buttons, and the render that follows; the effect that loads
\* the entries has run by the time a button can be pressed
setPeriod(p) ==
  /\ dEntries = dStore
  /\ dPeriod # p
  /\ dPeriod' = p
  /\ dView' = renderDashboard(dEntries, p, dTz)
  /\ UNCHANGED <<dStore, dEntries, dTz, notDash>>

(***************************************************************************)
(* PIN lock (App.tsx, components/pin-lock.tsx, pages/settings.tsx).        *)
(* localStorage "sleep_settings" is <<>> (no item) or <<settings>>, and    *)
(* sessionStorage "sleep_unlocked" is a flag.  App renders with locked =   *)
(* false, and its mount effect runs after that render has been committed:  *)
(* aPhase is "rendered" in between.  A timer set by setTimeout is pending  *)
(* until it fires; the timers of a component that has unmounted set state  *)
(* nobody reads, so they are dropped when it unmounts.  The timers that    *)
(* switch to the confirm step are counted; pFirstFour keeps, for           *)
(* reference, the first four digits entered while a switch is pending,     *)
(* and lKey the key of the lock screen pressed in the step just taken.     *)
(***************************************************************************)
PinDigits      == {"1", "2"}
PinLength      == 4
MaxPinInput    == 5
MaxLockTimers  == 1
MaxStepTimers  == 1
MaxErrorTimers == 1

defaultSettings == [pinEnabled |-> FALSE, pin |-> Null, defaultBedtime |-> formatTime(22, 30)]

\* raw ? { ...defaultSettings, ...JSON.parse(raw) } : defaultSettings
getSettings(raw) == IF raw = Null THEN defaultSettings ELSE raw[1]

saveSettings(settings) == <<settings>>

\* s.slice(0, -1)
sliceLast(s) == IF s = <<>> THEN <<>> ELSE SubSeq(s, 1, Len(s) - 1)

\* the state SettingsPage mounts with, and the one left when it is not mounted
mountSettings(raw) ==
  [settings |-> getSettings(raw), pinStep |-> "idle", newPin |-> <<>>,
   confirmPin |-> <<>>, pinError |-> ""]

PinIdle ==
  /\ sStored = Null /\ sUnlocked = FALSE
  /\ aPhase = "closed" /\ aLocked = FALSE /\ aRoute = "log"
  /\ lPin = <<>> /\ lError = FALSE /\ lTimers = 0 /\ lKey = Null
  /\ pState = mountSettings(Null) /\ pStepTimers = 0 /\ pErrTimers = 0 /\ pFirstFour = Null

InitPin == PinIdle

\* what is on screen: the pages, or the lock screen in their place
pagesShown == aPhase # "closed" /\ ~aLocked
usable     == aPhase = "running" /\ ~aLocked
onSettings == usable /\ aRoute = "settings"

\* the first render of App at a route: locked is false, the page mounts
AppRender(route) ==
  /\ lKey' = Null
  /\ aPhase = "closed"
  /\ aPhase' = "rendered"
  /\ aRoute' = route
  /\ aLocked' = FALSE
  /\ pState' = IF route = "settings" THEN mountSettings(sStored) ELSE mountSettings(Null)
  /\ UNCHANGED <<sStored, sUnlocked, lPin, lError, lTimers, pStepTimers, pErrTimers, pFirstFour, notPin>>

\* App's mount effect: seedIfEmpty, then the lock when a PIN is set and the session
\* has not been unlocked; PinLock replaces the pages
AppEffect ==
  /\ lKey' = Null
  /\ aPhase = "rendered"
  /\ aPhase' = "running"
  /\ entries' = seedIfEmpty(entries, Null)
  /\ IF getSettings(sStored).pinEnabled /\ ~sUnlocked
     THEN /\ aLocked' = TRUE
          /\ lPin' = <<>> /\ lError' = FALSE /\ lTimers' = 0
          /\ pState' = mountSettings(Null) /\ pStepTimers' = 0 /\ pErrTimers' = 0 /\ pFirstFour' = Null
     ELSE UNCHANGED <<aLocked, lPin, lError, lTimers, pState, pStepTimers, pErrTimers, pFirstFour>>
  /\ UNCHANGED <<sStored, sUnlocked, aRoute, page, date, existingId, feeling,
                 timeVars, metricVars, calVars, rangeVars, addVars, clockVars, dashVars, napVars>>

\* reloading the tab keeps sessionStorage; closing it ends the session
CloseTab(endSession) ==
  /\ lKey' = Null
  /\ aPhase = "running"
  /\ aPhase' = "closed"
  /\ aLocked' = FALSE
  /\ aRoute' = "log"
  /\ sUnlocked' = (sUnlocked /\ ~endSession)
  /\ lPin' = <<>> /\ lError' = FALSE /\ lTimers' = 0
  /\ pState' = mountSettings(Null) /\ pStepTimers' = 0 /\ pErrTimers' = 0 /\ pFirstFour' = Null
  /\ UNCHANGED <<sStored, notPin>>

\* a tab of the navigation bar
navigate(route) ==
  /\ lKey' = Null
  /\ usable
  /\ route # aRoute
  /\ aRoute' = route
  /\ pState' = IF route = "settings" THEN mountSettings(sStored) ELSE mountSettings(Null)
  /\ pStepTimers' = 0 /\ pErrTimers' = 0 /\ pFirstFour' = Null
  /\ UNCHANGED <<sStored, sUnlocked, aPhase, aLocked, lPin, lError, lTimers, notPin>>

\* the comparison of the lock screen that accepts any four digits
pinAccepted_anyFourDigits(next, settings) == TRUE

\* next === settings.pin
pinAccepted(next, settings) == next = settings.pin

\* PinLock.handleDigit
lockDigit(digit) ==
  /\ aPhase = "running" /\ aLocked
  /\ lKey' = <<digit>>
  /\ IF Len(lPin) >= PinLength
     THEN UNCHANGED <<lPin, lError, lTimers, sUnlocked, aLocked, pState>>
     ELSE LET next == Append(lPin, digit)
          IN  IF Len(next) = PinLength
              THEN IF pinAccepted(next, getSettings(sStored))
                   THEN /\ sUnlocked' = TRUE
                        /\ aLocked' = FALSE
                        /\ lPin' = <<>> /\ lError' = FALSE /\ lTimers' = 0
                        /\ pState' = IF aRoute = "settings" THEN mountSettings(sStored)
                                     ELSE pState
                   ELSE /\ lTimers < MaxLockTimers
                        /\ lPin' = next
                        /\ lError' = TRUE
                        /\ lTimers' = lTimers + 1
                        /\ UNCHANGED <<sUnlocked, aLocked, pState>>
              ELSE /\ lPin' = next
                   /\ UNCHANGED <<lError, lTimers, sUnlocked, aLocked, pState>>
  /\ UNCHANGED <<sStored, aPhase, aRoute, pStepTimers, pErrTimers, pFirstFour, notPin>>

\* PinLock.handleDelete
lockDelete ==
  /\ lKey' = Null
  /\ aPhase = "running" /\ aLocked
  /\ lPin' = sliceLast(lPin)
  /\ lError' = FALSE
  /\ UNCHANGED <<sStored, sUnlocked, aPhase, aLocked, aRoute, lTimers,
                 pState, pStepTimers, pErrTimers, pFirstFour, notPin>>

\* the 600 ms timer of a wrong PIN
lockTimerFires ==
  /\ lKey' = Null
  /\ aPhase = "running" /\ aLocked
  /\ lTimers > 0
  /\ lTimers' = lTimers - 1
  /\ lPin' = <<>>
  /\ lError' = FALSE
  /\ UNCHANGED <<sStored, sUnlocked, aPhase, aLocked, aRoute,
                 pState, pStepTimers, pErrTimers, pFirstFour, notPin>>

\* SettingsPage.handlePinToggle(checked): the switch shows settings.pinEnabled and
\* reports its negation
handlePinToggle ==
  /\ lKey' = Null
  /\ onSettings
  /\ IF ~pState.settings.pinEnabled
     THEN /\ pState' = [pState EXCEPT !.pinStep = "enter", !.newPin = <<>>,
                                      !.confirmPin = <<>>, !.pinError = ""]
          /\ pFirstFour' = Null
          /\ UNCHANGED <<sStored, sUnlocked>>
     ELSE LET updated == [pState.settings EXCEPT !.pinEnabled = FALSE, !.pin = Null]
          IN  /\ sStored' = saveSettings(updated)
              /\ sUnlocked' = TRUE
              /\ pState' = [pState EXCEPT !.settings = updated, !.pinStep = "idle"]
              /\ UNCHANGED pFirstFour
  /\ UNCHANGED <<aPhase, aLocked, aRoute, lPin, lError, lTimers, pStepTimers, pErrTimers, notPin>>

\* a confirmation that accepts whatever four digits are entered
pinConfirmed_unchecked(next, newPin) == TRUE

\* next === newPin
pinConfirmed(next, newPin) == next = newPin

\* SettingsPage.handlePinDigit; the keypad is there while pinStep is not idle
handlePinDigit(digit) ==
  /\ lKey' = Null
  /\ onSettings
  /\ pState.pinStep # "idle"
  /\ IF pState.pinStep = "enter"
     THEN /\ Len(pState.newPin) < MaxPinInput
          /\ pState' = [pState EXCEPT !.newPin = Append(pState.newPin, digit)]
          /\ IF Len(pState'.newPin) = PinLength
             THEN /\ pStepTimers < MaxStepTimers
                  /\ pStepTimers' = pStepTimers + 1
                  /\ pFirstFour' = IF pFirstFour = Null THEN <<pState'.newPin>> ELSE pFirstFour
             ELSE UNCHANGED <<pStepTimers, pFirstFour>>
          /\ UNCHANGED <<sStored, sUnlocked, pErrTimers>>
     ELSE /\ Len(pState.confirmPin) < MaxPinInput
          /\ LET next == Append(pState.confirmPin, digit)
             IN  IF Len(next) = PinLength
                 THEN IF pinConfirmed(next, pState.newPin)
                      THEN LET updated == [pState.settings EXCEPT !.pinEnabled = TRUE,
                                                                  !.pin = pState.newPin]
                           IN  /\ sStored' = saveSettings(updated)
                               /\ sUnlocked' = TRUE
                               /\ pState' = [pState EXCEPT !.confirmPin = next,
                                                           !.settings = updated,
                                                           !.pinStep = "idle"]
                               /\ UNCHANGED pErrTimers
                      ELSE /\ pErrTimers < MaxErrorTimers
                           /\ pErrTimers' = pErrTimers + 1
                           /\ pState' = [pState EXCEPT !.confirmPin = next,
                                                       !.pinError = "PINs don't match"]
                           /\ UNCHANGED <<sStored, sUnlocked>>
                 ELSE /\ pState' = [pState EXCEPT !.confirmPin = next]
                      /\ UNCHANGED <<sStored, sUnlocked, pErrTimers>>
          /\ UNCHANGED <<pStepTimers, pFirstFour>>
  /\ UNCHANGED <<aPhase, aLocked, aRoute, lPin, lError, lTimers, notPin>>

\* SettingsPage.handlePinDelete
handlePinDelete ==
  /\ lKey' = Null
  /\ onSettings
  /\ pState.pinStep # "idle"
  /\ pState' = IF pState.pinStep = "enter"
               THEN [pState EXCEPT !.newPin = sliceLast(pState.newPin)]
               ELSE [pState EXCEPT !.confirmPin = sliceLast(pState.confirmPin),
                                   !.pinError = ""]
  /\ UNCHANGED <<sStored, sUnlocked, aPhase, aLocked, aRoute, lPin, lError, lTimers,
                 pStepTimers, pErrTimers, pFirstFour, notPin>>

\* SettingsPage.cancelPinSetup
cancelPinSetup ==
  /\ lKey' = Null
  /\ onSettings
  /\ pState.pinStep # "idle"
  /\ pState' = [pState EXCEPT !.pinStep = "idle", !.newPin = <<>>,
                              !.confirmPin = <<>>, !.pinError = ""]
  /\ pFirstFour' = Null
  /\ UNCHANGED <<sStored, sUnlocked, aPhase, aLocked, aRoute, lPin, lError, lTimers,
                 pStepTimers, pErrTimers, notPin>>

\* the 200 ms timer set on the fourth digit of the enter step: setPinStep("confirm")
stepTimerFires ==
  /\ lKey' = Null
  /\ onSettings
  /\ pStepTimers > 0
  /\ pStepTimers' = pStepTimers - 1
  /\ pState' = [pState EXCEPT !.pinStep = "confirm"]
  /\ pFirstFour' = Null
  /\ UNCHANGED <<sStored, sUnlocked, aPhase, aLocked, aRoute, lPin, lError, lTimers,
                 pErrTimers, notPin>>

\* the 800 ms timer of a confirmation that did not match
errorTimerFires ==
  /\ lKey' = Null
  /\ onSettings
  /\ pErrTimers > 0
  /\ pErrTimers' = pErrTimers - 1
  /\ pState' = [pState EXCEPT !.confirmPin = <<>>, !.pinError = ""]
  /\ UNCHANGED <<sStored, sUnlocked, aPhase, aLocked, aRoute, lPin, lError, lTimers,
                 pStepTimers, pFirstFour, notPin>>

\* a default time changed: { ...settings, defaultBedtime: v }
setDefaultBedtime(v) ==
  /\ lKey' = Null
  /\ onSettings
  /\ v # pState.settings.defaultBedtime
  /\ LET updated == [pState.settings EXCEPT !.defaultBedtime = v]
     IN  /\ sStored' = saveSettings(updated)
         /\ pState' = [pState EXCEPT !.settings = updated]
  /\ UNCHANGED <<sUnlocked, aPhase, aLocked, aRoute, lPin, lError, lTimers,
                 pStepTimers, pErrTimers, pFirstFour, notPin>>

\* SettingsPage.handleClear: clearAllData removes the entries, the settings and the
\* session flag; the page reads the settings again
clearEverything ==
  /\ lKey' = Null
  /\ onSettings
  /\ entries' = clearAllData(entries)
  /\ sStored' = Null
  /\ sUnlocked' = FALSE
  /\ pState' = [pState EXCEPT !.settings = getSettings(sStored')]
  /\ UNCHANGED <<aPhase, aLocked, aRoute, lPin, lError, lTimers, pStepTimers, pErrTimers,
                 pFirstFour, page, date, existingId, feeling,
                 timeVars, metricVars, calVars, rangeVars, addVars, clockVars, dashVars, napVars>>

(***************************************************************************)
(* The log form's nap: the add and remove buttons, the NapSlider and the   *)
(* metrics memo (log.tsx).  posToRaw yields a real number of minutes       *)
(* between 0 and 45 + 135; the model draws it from the multiples of 2.5,   *)
(* which hold every value snapMinutes can return and every rounding        *)
(* boundary of its two grids.                                              *)
(***************************************************************************)
napSliderToRawMax == 45 + 135

NapRaws == {Rat(5 * k, 2) : k \in 0..((2 * napSliderToRawMax) \div 5)}

snapMinutes(raw) ==
  IF ~RatGt(raw, 0) THEN 0
  ELSE IF ~RatGt(raw, 60) THEN MathRound(RatDiv(raw, 5)) * 5
  ELSE MathRound(RatDiv(raw, 15)) * 15

\* the napEndTime memo: 14:00 plus napMinutes, as "HH:MM"
napEndTimeOf(napMinutes) ==
  formatTime((14 * 60 + napMinutes) \div 60, (14 * 60 + napMinutes) % 60)

\* the argument of the metrics memo; the form's times are those it mounts with
formEntry(hasNap, napEnd) ==
  [bedtime      |-> formatTime(22, 30),
   sleepTime    |-> formatTime(23, 0),
   wakeTime     |-> formatTime(7, 0),
   nightWakings |-> <<>>,
   napStart     |-> IF hasNap THEN formatTime(14, 0) ELSE Null,
   napEnd       |-> IF hasNap THEN napEnd ELSE Null,
   naps         |-> <<>>]

\* the metrics memo of the current render
metrics == calculateMetrics(formEntry(nHasNap, napEndTimeOf(nNapMinutes)))

\* the form as it mounts: no nap, 30 minutes, no slider
NapIdle ==
  /\ nHasNap = FALSE
  /\ nNapMinutes = 30
  /\ nNapDisplay = 30
  /\ nDragging = FALSE
  /\ nRawValue = Null

InitNap == NapIdle

\* button-add-nap: the NapSlider mounts with rawValue = value
addNap ==
  /\ ~nHasNap
  /\ nHasNap' = TRUE
  /\ nDragging' = FALSE
  /\ nRawValue' = <<Rat(nNapMinutes, 1)>>
  /\ UNCHANGED <<nNapMinutes, nNapDisplay, notNap>>

\* button-remove-nap: the NapSlider unmounts
removeNap ==
  /\ nHasNap
  /\ nHasNap' = FALSE
  /\ nDragging' = FALSE
  /\ nRawValue' = Null
  /\ UNCHANGED <<nNapMinutes, nNapDisplay, notNap>>

handleTouchStart(raw) ==
  /\ nHasNap
  /\ nDragging' = TRUE
  /\ nRawValue' = <<raw>>
  /\ nNapDisplay' = MathRound(raw)
  /\ UNCHANGED <<nHasNap, nNapMinutes, notNap>>

handleTouchMove(raw) ==
  /\ nHasNap /\ nDragging
  /\ nRawValue' = <<raw>>
  /\ nNapDisplay' = MathRound(raw)
  /\ UNCHANGED <<nHasNap, nNapMinutes, nDragging, notNap>>

handleTouchEnd ==
  /\ nHasNap /\ nDragging
  /\ nDragging' = FALSE
  /\ nNapMinutes' = snapMinutes(nRawValue[1])
  /\ nNapDisplay' = snapMinutes(nRawValue[1])
  /\ UNCHANGED <<nHasNap, nRawValue, notNap>>

handleClick(raw) ==
  /\ nHasNap
  /\ nNapMinutes' = snapMinutes(raw)
  /\ nNapDisplay' = snapMinutes(raw)
  /\ UNCHANGED <<nHasNap, nDragging, nRawValue, notNap>>

(***************************************************************************)
(* Specifications                                                          *)
(***************************************************************************)
NextTime == CallTimeToMinutes \/ CallTimeDiffMinutes

InitSpecTime == InitTime /\ MetricIdle /\ CalIdle /\ StoreIdle /\ DatesIdle /\ DashIdle /\ PinIdle /\ NapIdle

SpecTime == InitSpecTime /\ [][NextTime]_vars

NextMetrics == CallCalculateMetrics \/ CallGetSleepQuality

InitSpecMetrics == InitMetrics /\ TimeIdle /\ CalIdle /\ StoreIdle /\ DatesIdle /\ DashIdle /\ PinIdle /\ NapIdle

SpecMetrics == InitSpecMetrics /\ [][NextMetrics]_vars

NextCal == CallGetCalendarDays

InitSpecCal == InitCal /\ TimeIdle /\ MetricIdle /\ StoreIdle /\ DatesIdle /\ DashIdle /\ PinIdle /\ NapIdle

SpecCal == InitSpecCal /\ [][NextCal]_vars

NextRange == RangeCall \/ RangeStep \/ RangeReturn

InitSpecRange ==
  InitRange /\ TimeIdle /\ MetricIdle /\ CalIdle /\ StoreIdle /\ AddIdle /\ ClockIdle /\ DashIdle /\ PinIdle /\ NapIdle

SpecRange == InitSpecRange /\ [][NextRange]_vars

NextAdd == CallAddDays

InitSpecAdd ==
  InitAdd /\ TimeIdle /\ MetricIdle /\ CalIdle /\ StoreIdle /\ RangeIdle /\ ClockIdle /\ DashIdle /\ PinIdle /\ NapIdle

SpecAdd == InitSpecAdd /\ [][NextAdd]_vars

NextClock == CallIsToday \/ CallIsFuture \/ CallGetWeekRange \/ CallGetMonthRange

InitSpecClock ==
  InitClock /\ TimeIdle /\ MetricIdle /\ CalIdle /\ StoreIdle /\ RangeIdle /\ AddIdle /\ DashIdle /\ PinIdle /\ NapIdle

SpecClock == InitSpecClock /\ [][NextClock]_vars

NextDash == DashLoad \/ \E p \in Periods : setPeriod(p)

InitSpecDash == InitDash /\ TimeIdle /\ MetricIdle /\ CalIdle /\ StoreIdle /\ DatesIdle /\ PinIdle /\ NapIdle

SpecDash == InitSpecDash /\ [][NextDash]_vars

AppRoutes == {"log", "settings"}

NextPin ==
  \/ \E r \in AppRoutes : AppRender(r)
  \/ AppEffect
  \/ \E endSession \in BOOLEAN : CloseTab(endSession)
  \/ \E r \in AppRoutes : navigate(r)
  \/ \E d \in PinDigits : lockDigit(d)
  \/ lockDelete
  \/ lockTimerFires
  \/ handlePinToggle
  \/ \E d \in PinDigits : handlePinDigit(d)
  \/ handlePinDelete
  \/ cancelPinSetup
  \/ stepTimerFires
  \/ errorTimerFires
  \/ \E v \in Bedtimes : setDefaultBedtime(v)
  \/ clearEverything

InitSpecPin ==
  InitPin /\ TimeIdle /\ MetricIdle /\ CalIdle /\ StoreIdle /\ DatesIdle /\ DashIdle /\ NapIdle

SpecPin == InitSpecPin /\ [][NextPin]_vars

NextNap ==
  \/ addNap
  \/ removeNap
  \/ \E raw \in NapRaws : handleTouchStart(raw)
  \/ \E raw \in NapRaws : handleTouchMove(raw)
  \/ handleTouchEnd
  \/ \E raw \in NapRaws : handleClick(raw)

InitSpecNap ==
  InitNap /\ TimeIdle /\ MetricIdle /\ CalIdle /\ StoreIdle /\ DatesIdle /\ DashIdle /\ PinIdle

SpecNap == InitSpecNap /\ [][NextNap]_vars

Init == InitStore /\ TimeIdle /\ MetricIdle /\ CalIdle /\ DatesIdle /\ DashIdle /\ PinIdle /\ NapIdle

Next ==
  \/ \E r \in Routes, d \in {Null} \cup {<<c>> : c \in DateChoices} :
       (d # Null => r = "log") /\ OpenApp(r, d)
  \/ CloseApp
  \/ \E r \in Routes, d \in {Null} \cup {<<c>> : c \in DateChoices} :
       (d # Null => r = "log" /\ page = "history") /\ Navigate(r, d)
  \/ \E d \in DateChoices : selectCalendarDate(d)
  \/ \E f \in FormFeelings : setFeeling(f)
  \/ handleSave
  \/ handleDelete
  \/ \E i \in 1..Len(entries) : entries[i].date \in DateChoices /\ historyDelete(entries[i].id)
  \/ handleClear

Spec == Init /\ [][Next]_vars

(***************************************************************************)
(* Claims                                                                  *)
(***************************************************************************)

\* C1: after any sequence of log-form operations and seedIfEmpty, no two stored
\* entries share the same date.
C1_OneEntryPerDate ==
  \A i, j \in 1..Len(entries) : i # j => entries[i].date # entries[j].date


(***************************************************************************)
(* Reference arithmetic the claims are stated against: the minute of the   *)
(* day that renders as a given "HH:MM", and the elapsed minutes between    *)
(* two times counted forward on a 24-hour dial.                            *)
(***************************************************************************)
KnownTimes ==
  Times \cup Bedtimes \cup SleepTimes \cup WakeTimes
        \cup {w.start : w \in WakingSpans} \cup {w.end : w \in WakingSpans}
        \cup (NapStarts \ {Null}) \cup (NapEnds \ {Null})

MinuteOfDay == [t \in KnownTimes |-> CHOOSE n \in 0..1439 : formatTime(n \div 60, n % 60) = t]

RefElapsed(a, b) ==
  LET d == (MinuteOfDay[b] - MinuteOfDay[a]) % 1440
  IN  IF d = 0 THEN 1440 ELSE d

\* C2: for every pair of well-formed times, timeDiffMinutes(start, end) is >= 0
\* and < 2880.
C2_DiffInRange ==
  tOut.diff # Null => (tOut.diff[1] >= 0 /\ tOut.diff[1] < 2880)

\* the difference was computed for an end earlier on the clock than the start
C2_Witness ==
  tOut.diff # Null /\ StrLess(tEnd, tStart) /\ tOut.diff[1] > 0

\* C3: timeDiffMinutes is end - start when end is strictly later, that difference
\* plus 1440 when end <= start; timeDiffMinutes(t, t) = 1440 and 23:45 -> 00:15 is 30.
C3_RolloverDiff ==
  tOut.diff # Null =>
    LET s == MinuteOfDay[tStart]
        e == MinuteOfDay[tEnd]
    IN  /\ e > s => tOut.diff[1] = e - s
        /\ e <= s => tOut.diff[1] = (e - s) + 1440
        /\ tStart = tEnd => tOut.diff[1] = 1440
        /\ (tStart = formatTime(23, 45) /\ tEnd = formatTime(0, 15)) => tOut.diff[1] = 30

\* the difference of a time and itself was computed
C3_Witness ==
  tOut.diff # Null /\ tStart = tEnd /\ tOut.diff[1] = 1440

\* C4: timeToMinutes returns hour*60+minute in [0, 1439], and rendering
\* result div 60 and result mod 60 gives back the original time.
C4_ToMinutesRoundTrip ==
  tOut.min # Null =>
    /\ tOut.min[1] \in 0..1439
    /\ \E h \in Hours, m \in Minutes :
         tStart = formatTime(h, m) /\ tOut.min[1] = h * 60 + m
    /\ formatTime(tOut.min[1] \div 60, tOut.min[1] % 60) = tStart

\* the last minute of the day was converted
C4_Witness ==
  tOut.min # Null /\ tStart = formatTime(23, 59) /\ tOut.min[1] = 1439


\* C5: calculateMetrics never returns a negative totalSleep, also when latency plus
\* waking time exceeds the time in bed.
C5_TotalSleepNonNegative ==
  mMetrics # Null => mMetrics[1].totalSleep >= 0

\* metrics were computed for a night whose latency plus waking time exceeds the time in bed
C5_Witness ==
  /\ mMetrics # Null
  /\ mMetrics[1].sleepLatency + mMetrics[1].totalWakingTime > mMetrics[1].timeInBed
  /\ mMetrics[1].totalSleep = 0

\* C6: sleepEfficiency lies in [0, 100] whenever totalSleep <= timeInBed, and is
\* exactly 0 when timeInBed is 0.
C6_EfficiencyRange ==
  /\ (mMetrics # Null /\ mMetrics[1].totalSleep <= mMetrics[1].timeInBed) =>
       /\ mMetrics[1].sleepEfficiency.den > 0
       /\ mMetrics[1].sleepEfficiency.num >= 0
       /\ mMetrics[1].sleepEfficiency.num <= 100 * mMetrics[1].sleepEfficiency.den
  /\ (mMetrics # Null /\ mMetrics[1].timeInBed = 0) => mMetrics[1].sleepEfficiency.num = 0
  /\ sleepEfficiencyOf(0, 0).num = 0

\* metrics were computed for a night with some, but not all, of the time in bed asleep
C6_Witness ==
  /\ mMetrics # Null
  /\ mMetrics[1].totalSleep > 0
  /\ mMetrics[1].totalSleep < mMetrics[1].timeInBed
  /\ mMetrics[1].sleepEfficiency.num > 0

RECURSIVE RefWakingFrom(_, _)
RefWakingFrom(ws, i) ==
  IF i > Len(ws) THEN 0 ELSE RefElapsed(ws[i].start, ws[i].end) + RefWakingFrom(ws, i + 1)

RECURSIVE RefNapSumFrom(_, _)
RefNapSumFrom(ns, i) ==
  IF i > Len(ns) THEN 0 ELSE ns[i].minutes + RefNapSumFrom(ns, i + 1)

\* C7: timeInBed = elapsed(bedtime, wakeTime), sleepLatency = elapsed(bedtime,
\* sleepTime), totalWakingTime = sum of elapsed(start, end) over the night wakings,
\* totalSleep = max(0, timeInBed - sleepLatency - totalWakingTime), adjustedTotal =
\* totalSleep + napDuration; 22:30/23:00/07:00 with no wakings gives 510/30/480 and
\* with a 03:15-03:35 waking gives totalSleep 460.
C7_MetricsFormulas ==
  mMetrics # Null =>
    LET m    == mMetrics[1]
        tib  == RefElapsed(mEntry.bedtime, mEntry.wakeTime)
        lat  == RefElapsed(mEntry.bedtime, mEntry.sleepTime)
        wak  == RefWakingFrom(mEntry.nightWakings, 1)
        rest == tib - lat - wak
        example == /\ mEntry.bedtime = formatTime(22, 30)
                   /\ mEntry.sleepTime = formatTime(23, 0)
                   /\ mEntry.wakeTime = formatTime(7, 0)
    IN  /\ m.timeInBed = tib
        /\ m.sleepLatency = lat
        /\ m.totalWakingTime = wak
        /\ m.totalSleep = (IF rest > 0 THEN rest ELSE 0)
        /\ m.adjustedTotal = m.totalSleep + m.napDuration
        /\ (example /\ mEntry.nightWakings = <<>>) =>
             (m.timeInBed = 510 /\ m.sleepLatency = 30 /\ m.totalSleep = 480)
        /\ (example /\ mEntry.nightWakings =
                         <<[start |-> formatTime(3, 15), end |-> formatTime(3, 35)]>>) =>
             m.totalSleep = 460

\* metrics were computed for 22:30/23:00/07:00 with the 03:15-03:35 waking
C7_Witness ==
  /\ mMetrics # Null
  /\ mEntry.bedtime = formatTime(22, 30)
  /\ mEntry.sleepTime = formatTime(23, 0)
  /\ mEntry.wakeTime = formatTime(7, 0)
  /\ mEntry.nightWakings = <<[start |-> formatTime(3, 15), end |-> formatTime(3, 35)]>>
  /\ mMetrics[1].totalSleep = 460

\* C8: the nap duration is the sum of the nap-minutes list when that list is present
\* and non-empty (even if a nap start/end pair is also present); otherwise the elapsed
\* minutes between napStart and napEnd when both are present; otherwise 0.
C8_NapResolution ==
  mMetrics # Null =>
    mMetrics[1].napDuration =
      (IF mEntry.naps # <<>> /\ mEntry.naps[1] # <<>>
       THEN RefNapSumFrom(mEntry.naps[1], 1)
       ELSE IF mEntry.napStart # Null /\ mEntry.napEnd # Null
            THEN RefElapsed(mEntry.napStart, mEntry.napEnd)
            ELSE 0)

\* metrics were computed for a night with a two-element nap list and a nap pair
C8_Witness ==
  /\ mMetrics # Null
  /\ mEntry.naps # <<>> /\ Len(mEntry.naps[1]) = 2
  /\ mEntry.napStart # Null /\ mEntry.napEnd # Null
  /\ mMetrics[1].napDuration # RefElapsed(mEntry.napStart, mEntry.napEnd)

\* 1 when the condition holds, else 0
Pt(b) == IF b THEN 1 ELSE 0

\* C9: getSleepQuality follows the additive rubric: efficiency >= 85 adds 2, >= 75
\* adds 1; totalSleep/60 >= 7 adds 2, >= 6 adds 1; feeling >= 4 adds 2, >= 3 adds 1;
\* the score is in [0, 6]; >= 5 is good, 3 or 4 is ok, <= 2 is poor.
C9_QualityRubric ==
  mQuality # Null =>
    LET m     == calculateMetrics(mEntry)
        eff   == m.sleepEfficiency
        score == Pt(eff.num >= 85 * eff.den) + Pt(eff.num >= 75 * eff.den)
                   + Pt(m.totalSleep >= 420) + Pt(m.totalSleep >= 360)
                   + Pt(mEntry.feeling >= 4) + Pt(mEntry.feeling >= 3)
    IN  /\ score \in 0..6
        /\ score >= 5 => mQuality[1] = "good"
        /\ score \in {3, 4} => mQuality[1] = "ok"
        /\ score <= 2 => mQuality[1] = "poor"

\* a night of exactly 75% efficiency and exactly 6 hours with feeling 3 was rated ok
C9_Witness ==
  /\ mQuality = <<"ok">>
  /\ mEntry.feeling = 3
  /\ calculateMetrics(mEntry).totalSleep = 360
  /\ calculateMetrics(mEntry).timeInBed = 480


\* the Gregorian length of month index m0 (0..11) of year y
RefDaysInMonth(y, m0) ==
  IF m0 = 1 THEN (IF (y % 4 = 0 /\ y % 100 # 0) \/ y % 400 = 0 THEN 29 ELSE 28)
  ELSE IF m0 \in {3, 5, 8, 10} THEN 30 ELSE 31

\* C10: getCalendarDays returns a number of cells that is a multiple of 7, and the
\* number of cells with inMonth = true is the number of days of that month (29 for
\* getCalendarDays(2024, 1)).
C10_GridShape ==
  cDays # Null =>
    LET inMonthCells == {i \in 1..Len(cDays) : cDays[i].inMonth}
    IN  /\ Len(cDays) % 7 = 0
        /\ Cardinality(inMonthCells) = RefDaysInMonth(cYear, cMonth)
        /\ (cYear = 2024 /\ cMonth = 1) => Cardinality(inMonthCells) = 29

\* the grid of February 2024 was built, with 29 cells of the month
C10_Witness ==
  /\ cDays # Null
  /\ cYear = 2024 /\ cMonth = 1
  /\ Cardinality({i \in 1..Len(cDays) : cDays[i].inMonth}) = 29

(***************************************************************************)
(* Calendar reference: a date string read by position and counted in days  *)
(* from 1 January 1900 (a Monday) by summing Gregorian year and month      *)
(* lengths.                                                                *)
(***************************************************************************)
RefIsLeap(y) == (y % 4 = 0 /\ y % 100 # 0) \/ y % 400 = 0

\* days from 1 January 1900 to 1 January of year y, for the years of the model
RefYears == 1890..2110
RefYearStarts ==
  [y \in RefYears |->
     IF y >= 1900
     THEN 365 * (y - 1900) + Cardinality({k \in 1900..(y - 1) : RefIsLeap(k)})
     ELSE 0 - (365 * (1900 - y) + Cardinality({k \in y..1899 : RefIsLeap(k)}))]
RefYearStart(y) == RefYearStarts[y]

RECURSIVE RefMonthStart(_, _)
RefMonthStart(y, m0) ==
  IF m0 = 0 THEN 0 ELSE RefMonthStart(y, m0 - 1) + RefDaysInMonth(y, m0 - 1)

RefYearOf(s)  == Number(SubSeq(s, 1, 4))
RefMonthOf(s) == Number(SubSeq(s, 6, 7))
RefDayOf(s)   == Number(SubSeq(s, 9, 10))

\* "YYYY-MM-DD" naming a day that exists
RefIsDate(s) ==
  /\ Len(s) = 10 /\ s[5] = "-" /\ s[8] = "-"
  /\ \A i \in {1, 2, 3, 4, 6, 7, 9, 10} : s[i] \in DOMAIN DigitVals
  /\ RefMonthOf(s) \in 1..12
  /\ RefDayOf(s) \in 1..RefDaysInMonth(RefYearOf(s), RefMonthOf(s) - 1)

RefOrdinal(s) ==
  RefYearStart(RefYearOf(s)) + RefMonthStart(RefYearOf(s), RefMonthOf(s) - 1) + RefDayOf(s) - 1

\* 0 = Sunday
RefWeekday(s) == (RefOrdinal(s) + 1) % 7

\* C11: the cells of getCalendarDays(year, month) are consecutive real calendar
\* dates in ascending order and the first cell is a Sunday; the leading padding is
\* the last days of the previous month (of the previous year for January), the
\* trailing padding the first days of the next month (of the next year for
\* December), every padding cell has inMonth = false and there are fewer than 7
\* padding cells on each side.
C11_GridDates ==
  cDays # Null =>
    LET n        == Len(cDays)
        inIdx    == {i \in 1..n : cDays[i].inMonth}
        first    == CHOOSE i \in inIdx : \A j \in inIdx : i <= j
        last     == CHOOSE i \in inIdx : \A j \in inIdx : j <= i
        prevY    == IF cMonth = 0 THEN cYear - 1 ELSE cYear
        prevM    == IF cMonth = 0 THEN 12 ELSE cMonth
        nextY    == IF cMonth = 11 THEN cYear + 1 ELSE cYear
        nextM    == IF cMonth = 11 THEN 1 ELSE cMonth + 2
    IN  /\ \A i \in 1..n : RefIsDate(cDays[i].date) /\ cDays[i].day = RefDayOf(cDays[i].date)
        /\ \A i \in 1..(n - 1) : RefOrdinal(cDays[i + 1].date) = RefOrdinal(cDays[i].date) + 1
        /\ RefWeekday(cDays[1].date) = 0
        /\ \A i \in 1..n :
             cDays[i].inMonth <=> (/\ RefYearOf(cDays[i].date) = cYear
                                   /\ RefMonthOf(cDays[i].date) = cMonth + 1)
        /\ \A i \in 1..(first - 1) :
             /\ RefYearOf(cDays[i].date) = prevY /\ RefMonthOf(cDays[i].date) = prevM
        /\ first > 1 => cDays[first - 1].day = RefDaysInMonth(prevY, prevM - 1)
        /\ \A i \in (last + 1)..n :
             /\ RefYearOf(cDays[i].date) = nextY /\ RefMonthOf(cDays[i].date) = nextM
        /\ last < n => cDays[last + 1].day = 1
        /\ first - 1 < 7 /\ n - last < 7

\* a grid of a January with leading cells of the previous December, and a grid of
\* a December with trailing cells of the next January, were built
C11_Witness ==
  /\ cDays # Null
  /\ \/ cMonth = 0 /\ ~cDays[1].inMonth
     \/ cMonth = 11 /\ ~cDays[Len(cDays)].inMonth

\* the days from a to b, both included, when a is not after b
RefSpan(a, b) == IF RefOrdinal(a) <= RefOrdinal(b) THEN RefOrdinal(b) - RefOrdinal(a) + 1 ELSE 0

\* C12: for well-formed dates a and b, getDaysInRange(a, b) terminates and returns
\* the dates from a to b, both included, in strictly ascending order with no gaps:
\* as many dates as the days between a and b plus one when a <= b, none when a > b.
\* Termination: the loop has pushed at most that many dates, each the day after the
\* one before, and its condition holds exactly while it has pushed fewer.
C12_RangeEnumerates ==
  /\ rPc # "idle" =>
       /\ Len(rDates) <= RefSpan(rStart, rEnd)
       /\ RefIsDate(rCurrent)
       /\ RefOrdinal(rCurrent) = RefOrdinal(rStart) + Len(rDates)
       /\ Len(rDates) > 0 =>
            RefOrdinal(rDates[Len(rDates)]) = RefOrdinal(rStart) + Len(rDates) - 1
  /\ rPc = "loop" =>
       (rangeContinues(rCurrent, rEnd) <=> Len(rDates) < RefSpan(rStart, rEnd))
  /\ rPc = "done" =>
       /\ Len(rDates) = RefSpan(rStart, rEnd)
       /\ \A i \in 1..Len(rDates) :
            RefIsDate(rDates[i]) /\ RefOrdinal(rDates[i]) = RefOrdinal(rStart) + i - 1
       /\ \A i \in 1..(Len(rDates) - 1) : StrLess(rDates[i], rDates[i + 1])
       /\ Len(rDates) > 0 => rDates[1] = rStart /\ rDates[Len(rDates)] = rEnd
       /\ RefOrdinal(rStart) > RefOrdinal(rEnd) => rDates = <<>>

\* a range over the leap day of 2024 was enumerated
C12_Witness ==
  /\ rPc = "done"
  /\ Len(rDates) >= 3
  /\ \E i \in 1..Len(rDates) : rDates[i] = dateString(2024, 1, 29)

\* C14: addDays is calendar-correct for every date and every positive or negative
\* n: it rolls over month and year boundaries and counts 29 February in leap
\* years; addDays(d, 0) = d, addDays(addDays(d, n), -n) = d and
\* addDays(addDays(d, a), b) = addDays(d, a + b).
C14_AddDaysCalendar ==
  aOut # Null =>
    /\ RefIsDate(aOut.once)
    /\ RefOrdinal(aOut.once) = RefOrdinal(aDate) + aDays
    /\ aOut.zero = aDate
    /\ aOut.back = aDate
    /\ aOut.twice = aOut.sum
    /\ RefOrdinal(aOut.twice) = RefOrdinal(aDate) + aDays + aMore

\* a year was added to the leap day of 2024, and a day was taken from 1 March 2100
C14_Witness ==
  /\ aOut # Null
  /\ \/ aDate = dateString(2024, 1, 29) /\ aDays = 365 /\ aOut.once = dateString(2025, 1, 28)
     \/ aDate = dateString(2100, 2, 1) /\ aDays = -1 /\ aOut.once = dateString(2100, 1, 28)

\* the day count of a clock reading's day (day numbers start at 1 January 1970)
RefOrdinalOfDay(t) == RefOrdinal(<<"1", "9", "7", "0", "-", "0", "1", "-", "0", "1">>) + t

\* range r ends on day t and enumerates to n consecutive days, the last of them t
RefLastDays(r, t, n) ==
  LET days == getDaysInRange(r.start, r.end)
  IN  /\ RefIsDate(r.start) /\ RefIsDate(r.end)
      /\ RefOrdinal(r.end) = RefOrdinalOfDay(t)
      /\ RefOrdinal(r.start) = RefOrdinalOfDay(t) - (n - 1)
      /\ Len(days) = n
      /\ days[n] = r.end
      /\ \A i \in 1..n : RefOrdinal(days[i]) = RefOrdinalOfDay(t) - (n - i)

\* C13: getWeekRange returns end = today and start = today minus 6 days, and
\* getMonthRange returns end = today and start = today minus 29 days, so
\* enumerating the range with getDaysInRange yields exactly 7 and exactly 30 days,
\* the last of which is today (today being the clock's local date at the call).
C13_WeekAndMonthRange ==
  /\ kOut.week # Null =>
       RefLastDays(kOut.week[1], kNowA.day, 7) /\ RefLastDays(kOut.week[2], kNowB.day, 7)
  /\ kOut.month # Null =>
       RefLastDays(kOut.month[1], kNowA.day, 30) /\ RefLastDays(kOut.month[2], kNowB.day, 30)

\* on 2 March 2024 both ranges were computed: the week starts in February, the
\* month range reaches over the leap day
C13_Witness ==
  /\ kNowA.day = now
  /\ kOut.week # Null /\ kOut.month # Null
  /\ kOut.week[1].start = dateString(2024, 1, 25)
  /\ kOut.month[1].start = dateString(2024, 1, 2)

\* a call's result is the same in both runs
SameInBothRuns ==
  /\ kOut.isToday # Null => kOut.isToday[1] = kOut.isToday[2]
  /\ kOut.isFuture # Null => kOut.isFuture[1] = kOut.isFuture[2]
  /\ kOut.week # Null => kOut.week[1] = kOut.week[2]
  /\ kOut.month # Null => kOut.month[1] = kOut.month[2]

RefPeriodEnd   == RefOrdinalOfDay(dashClock.day)
RefPeriodStart == RefPeriodEnd - (IF dPeriod = "week" THEN 6 ELSE 29)
RefPeriodDays  == RefPeriodEnd - RefPeriodStart + 1

\* the records of es dated from day count a to day count b, in the order of es
RefDated(es, a, b) ==
  SelectSeq(es, LAMBDA e : a <= RefOrdinal(e.date) /\ RefOrdinal(e.date) <= b)

RefShortDate(d) == MonthShort[RefMonthOf(d)] \o <<" ">> \o numToString(RefDayOf(d))

\* h is hours in tenths, the nearest to the given minutes
RefIsHoursOf(h, minutes) ==
  /\ 10 % h.den = 0
  /\ Abs(h.num * 60 - minutes * h.den) <= 3 * h.den

\* n is a whole number nearest to the quotient x
RefIsNearest(n, x) == Abs(2 * n * x.den - 2 * x.num) <= x.den

\* C16: the dashboard's per-day series has exactly one element for each date of
\* getDaysInRange(range.start, range.end), in the same order; a date with a stored
\* record carries that record's sleep hours, efficiency and feeling, and a date
\* with no record carries null for all three.
C16_SeriesPerDay ==
  dView # Null =>
    LET dates == dashDates[dPeriod]   \* getDaysInRange(range.start, range.end), see C12
        recs(d) == SelectSeq(dEntries, LAMBDA e : e.date = d)
    IN  /\ dates[1] = dView.range.start /\ dates[Len(dates)] = dView.range.end
        /\ Len(dView.chartData) = Len(dates)
        /\ Len(dates) = RefPeriodDays
        /\ \A i \in 1..Len(dates) :
             LET pt == dView.chartData[i]
                 r  == recs(dates[i])
             IN  /\ RefOrdinal(dates[i]) = RefPeriodStart + i - 1
                 /\ pt.date = RefShortDate(dates[i])
                 /\ r = <<>> =>
                      pt.sleepHours = Null /\ pt.efficiency = Null /\ pt.feeling = Null
                 /\ r # <<>> =>
                      LET m == calculateMetrics(r[1])
                      IN  /\ pt.sleepHours # Null /\ pt.efficiency # Null
                          /\ RefIsHoursOf(pt.sleepHours[1], m.totalSleep)
                          /\ RefIsNearest(pt.efficiency[1], m.sleepEfficiency)
                          /\ pt.feeling = <<r[1].feeling>>

\* the month chart was rendered from loaded entries: 30 points, the last one
\* (today) with 7.8 hours of sleep and a feeling of 3, the one before it empty
C16_Witness ==
  /\ dView # Null
  /\ dPeriod = "month" /\ dEntries # <<>>
  /\ Len(dView.chartData) = 30
  /\ dView.chartData[30].sleepHours = <<[num |-> 39, den |-> 5]>>
  /\ dView.chartData[30].feeling = <<3>>
  /\ dView.chartData[29].sleepHours = Null

\* the deviations of the quotients xs[1..i] from a, summed
RECURSIVE RefDeviation(_, _, _)
RefDeviation(xs, a, i) ==
  IF i = 0 THEN Rat(0, 1) ELSE RatAdd(RefDeviation(xs, a, i - 1), RatSub(xs[i], a))

\* a is the arithmetic mean of the quotients xs: the deviations from it cancel
RefIsMean(a, xs) == Len(xs) > 0 /\ RefDeviation(xs, a, Len(xs)).num = 0

RefSleep(es) == [i \in 1..Len(es) |-> Rat(calculateMetrics(es[i]).totalSleep, 1)]
RefEff(es)   == [i \in 1..Len(es) |->
                   Rat(calculateMetrics(es[i]).sleepEfficiency.num,
                       calculateMetrics(es[i]).sleepEfficiency.den)]
RefFeel(es)  == [i \in 1..Len(es) |-> Rat(es[i].feeling, 1)]

\* statistics st are the means over the records es, with their number
RefIsStatsOf(st, es) ==
  /\ st.count = Len(es) /\ st.count >= 1
  /\ RefIsMean(st.sleep, RefSleep(es))
  /\ RefIsMean(st.eff, RefEff(es))
  /\ RefIsMean(st.feel, RefFeel(es))

\* C17: the period averages are computed over exactly the records with
\* range.start <= date <= range.end: they are the arithmetic means of totalSleep,
\* sleepEfficiency and feeling over that set, with count equal to its size; and
\* every aggregate over an empty set (the period averages, the previous-period
\* average, each group of a factor split) is reported as absent (null), never as
\* zero-valued statistics.
C17_AveragesOverPeriod ==
  dView # Null =>
    LET current == RefDated(dEntries, RefPeriodStart, RefPeriodEnd)
        withD   == SelectSeq(current, LAMBDA e : e.drinks > 0)
        noD     == SelectSeq(current, LAMBDA e : e.drinks = 0)
        withW   == SelectSeq(current, LAMBDA e : e.weed)
        noW     == SelectSeq(current, LAMBDA e : ~e.weed)
    IN  /\ dView.filtered = current
        /\ current = <<>> => dView.averages = Null
        /\ current # <<>> =>
             /\ dView.averages # Null
             /\ dView.averages[1].count = Len(current)
             /\ RefIsMean(dView.averages[1].avgSleep, RefSleep(current))
             /\ RefIsMean(dView.averages[1].avgEff, RefEff(current))
             /\ RefIsMean(dView.averages[1].avgFeel, RefFeel(current))
        /\ (dView.prevFiltered = Null \/ dView.prevFiltered = <<<<>>>>) =>
             dView.prevPeriodAvg = Null
        /\ dView.prevPeriodAvg # Null =>
             /\ RefIsMean(dView.prevPeriodAvg[1].avgSleep, RefSleep(dView.prevFiltered[1]))
             /\ RefIsMean(dView.prevPeriodAvg[1].avgEff, RefEff(dView.prevFiltered[1]))
        /\ dView.correlations # Null =>
             /\ (withD = <<>> \/ noD = <<>>) => dView.correlations[1].drinks = Null
             /\ (withW = <<>> \/ noW = <<>>) => dView.correlations[1].weed = Null
             /\ dView.correlations[1].drinks # Null =>
                  /\ RefIsStatsOf(dView.correlations[1].drinks[1].with, withD)
                  /\ RefIsStatsOf(dView.correlations[1].drinks[1].without, noD)
             /\ dView.correlations[1].weed # Null =>
                  /\ RefIsStatsOf(dView.correlations[1].weed[1].with, withW)
                  /\ RefIsStatsOf(dView.correlations[1].weed[1].without, noW)

\* the week was rendered with two nights in it, 480 and 465 minutes asleep, and
\* none in the seven days before: an average of 472.5 minutes over 2 nights, no
\* previous-period average and, both nights being without weed, no weed split
C17_Witness ==
  /\ dView # Null
  /\ dView.averages # Null
  /\ dView.averages[1].count = 2
  /\ dView.averages[1].avgSleep = [num |-> 945, den |-> 2]
  /\ dView.prevFiltered = <<<<>>>>
  /\ dView.prevPeriodAvg = Null
  /\ dView.correlations # Null
  /\ dView.correlations[1].weed = Null

\* the records of the period of equal length right before the current one
RefPrevious == RefDated(dEntries, RefPeriodStart - RefPeriodDays, RefPeriodStart - 1)

\* totalSleep summed over es[1..i]
RECURSIVE RefSleepSum(_, _)
RefSleepSum(es, i) ==
  IF i = 0 THEN 0 ELSE RefSleepSum(es, i - 1) + calculateMetrics(es[i]).totalSleep

\* the average of cur less the average of prev, times Len(cur) * Len(prev)
RefScaledDiff(cur, prev) ==
  RefSleepSum(cur, Len(cur)) * Len(prev) - RefSleepSum(prev, Len(prev)) * Len(cur)

RefTrend(cur, prev) ==
  IF cur = <<>> \/ prev = <<>> THEN "flat"
  ELSE IF RefScaledDiff(cur, prev) > 15 * Len(cur) * Len(prev) THEN "up"
  ELSE IF RefScaledDiff(cur, prev) < (0 - 15) * Len(cur) * Len(prev) THEN "down"
  ELSE "flat"

\* C18: the sleep trend is 'up' exactly when the current-period average sleep
\* exceeds the previous-period average by more than 15 minutes, 'down' exactly
\* when it is lower by more than 15 minutes, and 'flat' otherwise (a difference of
\* exactly +15 or -15 minutes is 'flat'); when the current or the previous period
\* has no records the trend is 'flat'.
C18_TrendThresholds ==
  dView # Null =>
    dView.sleepTrend = RefTrend(RefDated(dEntries, RefPeriodStart, RefPeriodEnd), RefPrevious)

\* C19: the comparison set of the trend is exactly the records of the immediately
\* preceding period of equal length: for a current range [start, end] of N days
\* (7 or 30) it is the records with start - N <= date <= start - 1, and no record
\* is counted in both periods.
C19_PreviousPeriod ==
  (dView # Null /\ dView.prevFiltered # Null) =>
    /\ dView.prevFiltered[1] = RefPrevious
    /\ \A i \in 1..Len(dView.prevFiltered[1]) :
         \A j \in 1..Len(dView.filtered) : dView.prevFiltered[1][i] # dView.filtered[j]

\* one factor's split sp of the filtered nights: emitted only with a night in each
\* group, each emitted group counted at least once, the counts adding up
RefSplitSafe(sp, withF, noF, nights) ==
  /\ (withF = <<>> \/ noF = <<>>) => sp = Null
  /\ sp # Null =>
       /\ sp[1].with.count = Len(withF) /\ sp[1].without.count = Len(noF)
       /\ sp[1].with.count >= 1 /\ sp[1].without.count >= 1
       /\ sp[1].with.count + sp[1].without.count = Len(nights)

\* C20: a factor split (drinks > 0 against drinks = 0, weed true against weed
\* false) is emitted only when both of its groups are non-empty; when either group
\* is empty that factor's split is null; every emitted group has count >= 1 and the
\* two counts add up to the number of filtered nights.
C20_FactorSplit ==
  (dView # Null /\ dView.correlations # Null) =>
    LET nights == RefDated(dEntries, RefPeriodStart, RefPeriodEnd)
    IN  /\ RefSplitSafe(dView.correlations[1].drinks,
                        SelectSeq(nights, LAMBDA e : e.drinks > 0),
                        SelectSeq(nights, LAMBDA e : e.drinks = 0), nights)
        /\ RefSplitSafe(dView.correlations[1].weed,
                        SelectSeq(nights, LAMBDA e : e.weed),
                        SelectSeq(nights, LAMBDA e : ~e.weed), nights)

\* three nights in the period, one of them after drinks and none with weed: the
\* drinks split is emitted with counts 1 and 2, the weed split is null
C20_Witness ==
  /\ dView # Null /\ dView.correlations # Null
  /\ Len(dView.filtered) = 3
  /\ dView.correlations[1].drinks # Null
  /\ dView.correlations[1].drinks[1].with.count = 1
  /\ dView.correlations[1].drinks[1].without.count = 2
  /\ dView.correlations[1].weed = Null

(***************************************************************************)
(* The store's operations, each stated on the step that performs it.       *)
(***************************************************************************)
\* the app is opened by this step: App's mount effect calls seedIfEmpty
RefAppOpens == page = "closed" /\ page' # "closed"

\* C21: seedIfEmpty called on an empty entry store writes exactly 14 entries with
\* pairwise distinct dates, one for each of the 14 days ending yesterday, and called
\* on a non-empty entry store it leaves the store unchanged.
C21_SeedOnEmptyOnly ==
  [][RefAppOpens =>
       IF Len(entries) = 0
       THEN /\ Len(entries') = 14
            /\ \A i, j \in 1..Len(entries') : i # j => entries'[i].date # entries'[j].date
            /\ \A i \in 1..Len(entries') : RefIsDate(entries'[i].date)
            /\ {RefOrdinal(entries'[i].date) : i \in 1..Len(entries')}
                 = {RefOrdinalOfDay(now) - k : k \in 1..14}
       ELSE entries' = entries]_vars

\* the app is open on a store that holds the seeded fortnight, 17 February to 1 March
C21_Witness ==
  /\ page # "closed"
  /\ Len(entries) = 14
  /\ entries[1].date = <<"2", "0", "2", "4", "-", "0", "3", "-", "0", "1">>
  /\ entries[14].date = <<"2", "0", "2", "4", "-", "0", "2", "-", "1", "7">>

(***************************************************************************)
(* PIN lock: the claims.                                                   *)
(***************************************************************************)
\* a string of exactly four decimal digits
RefIsPin(s) == Len(s) = 4 /\ \A i \in 1..Len(s) : s[i] \in DOMAIN DigitVals

\* the lock screen lets the user in by this step
RefUnlocks ==
  /\ aLocked /\ aPhase' = "running"
  /\ ~aLocked' \/ (sUnlocked' /\ ~sUnlocked)

\* C22: on the PIN lock screen the session is unlocked (setUnlocked(true) and onUnlock
\* called) only when the 4 digits currently entered equal the stored PIN: no sequence
\* of digit presses, delete presses and error-reset timer firings unlocks with a
\* different input, and the entered input never holds more than 4 digits.
C22_UnlockOnlyByStoredPin ==
  /\ [](Len(lPin) <= 4)
  /\ [][RefUnlocks =>
          /\ lKey' # Null
          /\ RefIsPin(lPin \o lKey')
          /\ lPin \o lKey' = getSettings(sStored).pin
          /\ sUnlocked' /\ ~aLocked']_vars

\* the lock screen has just let the user in on the fourth digit
C22_Witness ==
  /\ aPhase = "running" /\ ~aLocked /\ sUnlocked
  /\ lKey # Null
  /\ getSettings(sStored).pinEnabled
  /\ getSettings(sStored).pin = <<"1", "2", "2", "1">>

\* C23: when the PIN is enabled and the session is not unlocked at app start, no page
\* content (log, history, dashboard, settings) is rendered before the correct PIN has
\* been entered: in every state where the pages are shown, either pinEnabled is false
\* or the session-unlocked flag is true.
C23_PagesBehindPin ==
  pagesShown => (~getSettings(sStored).pinEnabled \/ sUnlocked)

\* C24: after any sequence of settings operations (PIN toggle, PIN setup digits,
\* delete, cancel, changing defaults or factors, clear all data), the stored settings
\* satisfy: pinEnabled is true only if pin is a string of exactly 4 digits, and pin is
\* null whenever pinEnabled is false.
C24_StoredPinWellFormed ==
  sStored # Null =>
    /\ sStored[1].pinEnabled => (sStored[1].pin # Null /\ RefIsPin(sStored[1].pin))
    /\ ~sStored[1].pinEnabled => sStored[1].pin = Null

\* a PIN is enabled, a default time has been changed, and the settings page is open
C24_Witness ==
  /\ sStored # Null
  /\ sStored[1].pinEnabled
  /\ sStored[1].pin = <<"2", "1", "1", "2">>
  /\ sStored[1].defaultBedtime # defaultSettings.defaultBedtime
  /\ onSettings

\* C25: in PIN setup, when the confirm step begins the PIN to be confirmed is exactly
\* the first 4 digits entered: digit or delete presses made during the 200 ms delay
\* between entering the 4th digit and the switch to the confirm step do not change it,
\* so re-entering those 4 digits in the confirm step always enables the PIN.
C25_ConfirmsFirstFour ==
  [][(pState.pinStep = "enter" /\ pState'.pinStep = "confirm" /\ pFirstFour # Null) =>
       pState'.newPin = pFirstFour[1]]_vars

\* C26: after any sequence of saveEntry, deleteEntry and seedIfEmpty calls starting
\* from an empty store, the stored entry list is sorted by date in descending order
\* (newest first).
C26_NewestFirst ==
  \A i \in 1..(Len(entries) - 1) :
    /\ RefIsDate(entries[i].date) /\ RefIsDate(entries[i + 1].date)
    /\ RefOrdinal(entries[i].date) >= RefOrdinal(entries[i + 1].date)

\* the seeded store after a save for today (first), a save for the day before the
\* fortnight (last) and the deletion of yesterday's entry
C26_Witness ==
  /\ Len(entries) = 15
  /\ entries[1].date = todayStr
  /\ entries[15].date = toDateString(now - (SeedCount + 1))
  /\ \A i \in 1..Len(entries) : entries[i].date # getYesterday

\* the positions of list es that hold an entry with identifier id
RefWithId(es, id) == {i \in 1..Len(es) : es[i].id = id}

\* the log form's Save is this step; the entry it saves
RefSaves ==
  /\ page = "log" /\ page' = "log"
  /\ date' = date /\ feeling' = feeling
  /\ existingId' # Null
  /\ entries' # entries
RefSaved == [id |-> existingId'[1], date |-> date, feeling |-> feeling]

\* C27: saveEntry(e) is an upsert keyed by id: afterwards the store contains exactly
\* one entry with id e.id and it equals e, every entry with a different id is
\* unchanged, and the number of entries grows by one if no entry had id e.id and stays
\* the same otherwise.
C27_SaveIsUpsert ==
  [][RefSaves =>
       /\ Cardinality(RefWithId(entries', RefSaved.id)) = 1
       /\ \A j \in RefWithId(entries', RefSaved.id) : entries'[j] = RefSaved
       /\ \A i \in 1..Len(entries) :
            entries[i].id # RefSaved.id =>
              /\ Cardinality(RefWithId(entries', entries[i].id)) = 1
              /\ \A j \in RefWithId(entries', entries[i].id) : entries'[j] = entries[i]
       /\ \A j \in 1..Len(entries') :
            entries'[j].id # RefSaved.id => RefWithId(entries, entries'[j].id) # {}
       /\ Len(entries') = Len(entries)
                            + (IF RefWithId(entries, RefSaved.id) = {} THEN 1 ELSE 0)]_vars

\* the seeded entry of yesterday (feeling 4) was saved again with feeling 5: still 14
\* entries, and a new entry for today was saved before it
C27_Witness ==
  /\ page = "log" /\ existingId # Null
  /\ Len(entries) = 15
  /\ entries[1].date = todayStr
  /\ entries[2].date = getYesterday /\ entries[2].feeling = 5
  /\ entries[2].id = existingId[1]

\* a delete is this step: the log form's button, or the history list's
RefLogDeletes ==
  page = "log" /\ page' = "log" /\ existingId # Null /\ existingId' = Null /\ date' = date
RefHistoryDeletes ==
  page = "history" /\ page' = "history" /\ entries' # entries

\* list after is list before without the entries whose identifier is id, in order
RefWithout(before, id, after) ==
  LET kept == {i \in 1..Len(before) : before[i].id # id}
  IN  /\ Len(after) = Cardinality(kept)
      /\ \A k \in kept : after[Cardinality({i \in kept : i <= k})] = before[k]

\* C28: deleteEntry(id) removes exactly the entries whose id equals id and leaves every
\* other entry and their relative order unchanged; deleting an id that is not stored
\* leaves the entry collection unchanged.
C28_DeleteRemovesOnlyId ==
  /\ [][/\ RefLogDeletes => RefWithout(entries, existingId[1], entries')
        /\ RefHistoryDeletes =>
             \E i \in 1..Len(entries) :
               /\ RefWithId(entries', entries[i].id) = {}
               /\ RefWithout(entries, entries[i].id, entries')]_vars
  /\ [](deleteEntry(entries, generateId(idsInUse(entries, Null), 1)) = entries)

\* the history list on a store from which yesterday's seeded entry has been deleted:
\* 13 entries, the day before yesterday first
C28_Witness ==
  /\ page = "history"
  /\ Len(entries) = 13
  /\ entries[1].date = toDateString(now - 2)
  /\ entries[13].date = toDateString(now - SeedCount)


\* C29: in the log form with a nap enabled, the nap duration the metrics memo
\* computes (calculateMetrics over napStart 14:00 and napEnd = napEndTime)
\* equals the napMinutes selected on the slider, for every value it can select
C29_NapDurationIsSliderMinutes ==
  nHasNap => metrics.napDuration = nNapMinutes


\* the rank of a quality tier: poor < ok < good
RefTier(quality) == IF quality = "good" THEN 2 ELSE IF quality = "ok" THEN 1 ELSE 0

\* the tier of the night mEntry had its feeling been f
RefTierWithFeeling(f) == RefTier(getSleepQuality([mEntry EXCEPT !.feeling = f]))

\* C30: getSleepQuality is monotone in the feeling rating: of two nights with the
\* same timings, night wakings and naps, the one with the higher feeling (1-5) is
\* never classified in a worse tier (poor < ok < good).
C30_QualityMonotoneInFeeling ==
  mQuality # Null =>
    \A f \in 1..5 :
      /\ f >= mEntry.feeling => RefTierWithFeeling(f) >= RefTier(mQuality[1])
      /\ f <= mEntry.feeling => RefTierWithFeeling(f) <= RefTier(mQuality[1])

\* a night was rated ok with feeling 2; the same night is still ok with feeling 1
\* and good with feeling 4
C30_Witness ==
  /\ mQuality = <<"ok">>
  /\ mEntry.feeling = 2
  /\ RefTierWithFeeling(1) = 1
  /\ RefTierWithFeeling(4) = 2

====
